---------------------------- MODULE Spec2Model ----------------------------
(***************************************************************************)
(* Model of the tool-augmented generation protocol of the RAG chatbot      *)
(* backend:                                                                *)
(*   backend/ai_generator.py  AIGenerator.generate_response and helpers    *)
(*   backend/search_tools.py  ToolManager and the sources of its tools     *)
(*                                                                         *)
(* Spec          one run of generate_response.  The environment (the       *)
(*               Anthropic client and the tools) is nondeterministic:      *)
(*               every model call either raises or answers with any stop   *)
(*               reason and any list of content blocks, every tool         *)
(*               execution either returns a text or raises.                *)
(* HistorySpec   the same run, called with no history, an empty history   *)
(*               or a history text, on a registry without tools.           *)
(* RegistrySpec  one ToolManager whose methods are called in any order.    *)
(* ConcSpec      two queries at once on one AIGenerator and one            *)
(*               ToolManager, their steps interleaved.                     *)
(* ToolsSpec     one CourseSearchTool and one CourseOutlineTool executed   *)
(*               in any order; the vector store is the environment.        *)
(***************************************************************************)
EXTENDS Integers, Sequences, FiniteSets, TLC

VARIABLES
    tools,          \* argument `tools` of generate_response
    tool_manager,   \* argument `tool_manager`: None or the registry
    pc,             \* position of the run in generate_response
    round_num,      \* loop variable of `for round_num in range(1, 3)`
    messages,       \* local `messages`
    response,       \* local `response` / `final_response` (last model response)
    block_idx,      \* position of `for content_block in response.content`
    tool_results,   \* local `tool_results` of _execute_tools_and_update_messages
    api_calls,      \* log: api_params of every client.messages.create call
    api_responses,  \* log: what every client.messages.create call answered
    dispatched,     \* log: every tool_manager.execute_tool call and its outcome
    outcome,        \* how generate_response ended: returned value or exception
    messages_obj,   \* identity of the list object `messages` refers to
    sent,           \* the list objects handed to client.messages.create, as
                    \* they are now: [obj, val] per model call
    tool_objs,      \* values of ToolManager.tools, aligned with its keys
    last_sources,   \* attribute last_sources of every Tool object
    last_call,      \* the last ToolManager method called directly, its result
    runs,           \* the queries running concurrently, with their locals
    registered,     \* log: the Tool objects register_tool stored, in call order
    conversation_history,  \* argument `conversation_history`
    system_content, \* local `system_content` of generate_response
    last_stored     \* log: the tool whose execution, called through
                    \* execute_tool directly, stored sources last

vars == <<tools, tool_manager, pc, round_num, messages, response, block_idx,
          tool_results, api_calls, api_responses, dispatched, outcome,
          messages_obj, sent, tool_objs, last_sources, last_call, runs,
          registered, conversation_history, system_content, last_stored>>

-----------------------------------------------------------------------------
(* Bounds of the environment *)

\* longest content list a model response carries
MaxBlocks == 2

\* register_tool stores at most this many tools in one ToolManager
MaxRegistrations == 3

\* the client answers at most this many calls of one run
MaxCalls == 4

(* Python's Optional values: None, or a value *)
None == "None"

NoneList == [is_none |-> TRUE, val |-> <<>>]

SomeList(l) == [is_none |-> FALSE, val |-> l]

\* tool_manager=None, and a ToolManager whose self.tools has the keys `names`,
\* in registration order
NoManager == [is_none |-> TRUE, tools |-> <<>>]

ToolManager(names) == [is_none |-> FALSE, tools |-> names]

\* `tool_name in self.tools`
IsRegistered(registry, tool_name) ==
    \E i \in 1..Len(registry.tools) : registry.tools[i] = tool_name

\* the locals and logs of the one run of generate_response
run_vars == <<tools, pc, round_num, messages, response, block_idx,
              tool_results, api_calls, api_responses, dispatched, outcome,
              messages_obj, sent, conversation_history, system_content>>

-----------------------------------------------------------------------------
(* Values of the program and of its environment *)

QUERY == "What is Python?"

SYSTEM_PROMPT == "You are an AI assistant specialized in course materials"

\* names registered in the ToolManager of the application (keys of self.tools)
RegisteredTools == << "search_course_content", "get_course_outline" >>

\* ToolManager.get_tool_definitions: one definition per registered tool
GetToolDefinitions(registry) ==
    [i \in 1..Len(registry.tools) |-> [name |-> registry.tools[i]]]

\* the Tool objects of the application, a second CourseSearchTool, and two
\* tools whose definition has no "name" key or an empty name
ToolObjects ==
    {"search_tool", "outline_tool", "search_tool_2", "nameless_tool",
     "empty_name_tool"}

\* tool.get_tool_definition().get("name")
DefinitionName(tool) ==
    CASE tool = "search_tool"     -> "search_course_content"
      [] tool = "search_tool_2"   -> "search_course_content"
      [] tool = "outline_tool"    -> "get_course_outline"
      [] tool = "nameless_tool"   -> None
      [] tool = "empty_name_tool" -> ""

\* tool.get_tool_definition(): the two CourseSearchTool objects return equal
\* definitions
Description(tool) ==
    CASE tool \in {"search_tool", "search_tool_2"} ->
            "Search course materials with smart course name matching and lesson filtering"
      [] tool = "outline_tool" ->
            "Get course outline including course title, course link, and complete lesson list"
      [] OTHER -> "A tool"

GetToolDefinition(tool) ==
    [name |-> DefinitionName(tool), description |-> Description(tool)]

\* the Tool objects the application registers, in registration order
ApplicationTools == << "search_tool", "outline_tool" >>

\* the values of self.tools of the tool managers below
ToolObjectsOf(registry) ==
    IF registry.tools = RegisteredTools THEN ApplicationTools ELSE <<>>

\* self.tools[tool_name]
ToolUnder(registry, objs, tool_name) ==
    objs[CHOOSE i \in 1..Len(registry.tools) : registry.tools[i] = tool_name]

\* sources a tool kept from an earlier query, and those of the results the
\* tools return here
StaleSources == << [text |-> "Old Course - Lesson 2", link |-> None] >>

ResultSources ==
    << [text |-> "Python Basics - Lesson 1",
        link |-> "https://example.com/python/lesson1"] >>

\* the sources of the results whose formatted text is `value`: both are built
\* from the same documents and metadata
SearchSources(value) ==
    IF value = "Python search results"
    THEN ResultSources
    ELSE << [text |-> "Course of " \o value, link |-> None] >>

\* the one source CourseOutlineTool._format_course_outline stores
OutlineSources ==
    << [text |-> "Python Basics", link |-> "https://example.com/python"] >>

\* the sources an execution of `tool` that formats results stores
SourcesOf(tool, exec) ==
    IF tool = "outline_tool" THEN OutlineSources ELSE SearchSources(exec.value)

\* a tool's answer that formats nothing: no match, or the store's error text
\* (search_tools.py:77-87, :163-177)
NoContent == [kind |-> "return", value |-> "No relevant content found."]

\* last_sources of every tool when the run starts: the search tool still
\* holds the sources of an earlier search, the others hold none
InitialSources ==
    [t \in ToolObjects |-> IF t = "search_tool" THEN StaleSources ELSE <<>>]

\* the tool managers a caller may hold: none, one without tools, the
\* application's
ToolManagers == {NoManager, ToolManager(<<>>), ToolManager(RegisteredTools)}

\* the `tools` argument: None, or a list of tool definitions; a caller that
\* holds a tool manager passes its get_tool_definitions(), the empty list for
\* a manager without tools
ToolsArguments(registry) ==
    IF registry.is_none
    THEN {NoneList, SomeList(<<>>),
          SomeList(GetToolDefinitions(ToolManager(RegisteredTools)))}
    ELSE {SomeList(GetToolDefinitions(registry))}

\* names the model may ask for in a tool_use block
RequestedNames == {"search_course_content", "no_such_tool"}

\* stop_reason values of a response
StopReasons == {"end_turn", "tool_use"}

\* what Tool.execute may do: return a text or raise Exception(msg)
ToolOutcomes ==
    { [kind |-> "return", value |-> "Python search results"],
      [kind |-> "raise", msg |-> "Course not found"] }

\* texts and call ids are opaque to the program: the k-th response labels
\* its i-th block uniquely
Label(prefix, k, i) == prefix \o ToString(k) \o "_" \o ToString(i)

TextBlock(k, i) == [type |-> "text", text |-> Label("text_", k, i)]

ToolUseBlock(k, i, name) ==
    [type |-> "tool_use", id |-> Label("toolu_", k, i), name |-> name,
     input |-> [query |-> "Python"]]

BlocksAt(k, i) ==
    {TextBlock(k, i)} \cup {ToolUseBlock(k, i, n) : n \in RequestedNames}

\* every content list of 0..MaxBlocks blocks of the k-th response
Contents(k) ==
    UNION { { c \in [1..n -> UNION {BlocksAt(k, i) : i \in 1..n}] :
                \A i \in 1..n : c[i] \in BlocksAt(k, i) } : n \in 0..MaxBlocks }

\* every response the client may return to the k-th call
Responses(k) ==
    { [stop_reason |-> s, content |-> c] : s \in StopReasons, c \in Contents(k) }

\* the answers to the k-th call, computed once
ResponsesOf == [k \in 1..MaxCalls |-> Responses(k)]

NoResponse == [stop_reason |-> None, content |-> <<>>]

-----------------------------------------------------------------------------
(* Pure helpers *)

\* Python truthiness of an Optional[List]: None and [] are falsy
Truthy(l) == ~l.is_none /\ l.val # <<>>

\* AIGenerator.base_params
base_params == [model |-> "claude-sonnet-4", temperature |-> 0, max_tokens |-> 800]

\* mutant of BuildSystemContent: the history block is appended whatever the
\* history
BuildSystemContentAlways(history) ==
    SYSTEM_PROMPT \o "\n\nPrevious conversation:\n" \o history

\* AIGenerator._build_system_content: `if conversation_history` is false for
\* None and for ""
BuildSystemContent(history) ==
    IF history # None /\ history # ""
    THEN SYSTEM_PROMPT \o "\n\nPrevious conversation:\n" \o history
    ELSE SYSTEM_PROMPT

\* AIGenerator._make_api_call: the api_params handed to client.messages.create
ApiParams(msgs, system, tls) ==
    LET api_params ==
            [model |-> base_params.model, temperature |-> base_params.temperature,
             max_tokens |-> base_params.max_tokens,
             messages |-> msgs, system |-> system]
    IN  IF Truthy(tls)
        THEN api_params @@ [tools |-> tls.val, tool_choice |-> [type |-> "auto"]]
        ELSE api_params

\* mutant of CurrentTools: the tools are offered in every round
CurrentToolsEveryRound(r, tls) == tls

\* `current_tools = tools if round_num == 1 else None`
CurrentTools(r, tls) == IF r = 1 THEN tls ELSE NoneList

\* mutant of FirstText: `response.content[-1].text`
FirstTextOfLastBlock(resp) ==
    IF Len(resp.content) = 0
    THEN [kind |-> "raise", exc |-> "IndexError"]
    ELSE IF resp.content[Len(resp.content)].type # "text"
    THEN [kind |-> "raise", exc |-> "AttributeError"]
    ELSE [kind |-> "return", value |-> resp.content[Len(resp.content)].text]

\* `response.content[0].text`: IndexError on an empty list, AttributeError on a
\* block without a text attribute (a tool_use block)
FirstText(resp) ==
    IF Len(resp.content) = 0
    THEN [kind |-> "raise", exc |-> "IndexError"]
    ELSE IF resp.content[1].type # "text"
    THEN [kind |-> "raise", exc |-> "AttributeError"]
    ELSE [kind |-> "return", value |-> resp.content[1].text]

\* mutant of ExecuteTool: no membership test, `self.tools[tool_name]` raises
\* KeyError for a name that is not registered
ExecuteToolUnknownRaises(registry, tool_name, exec) ==
    IF ~IsRegistered(registry, tool_name)
    THEN [kind |-> "raise", msg |-> "'" \o tool_name \o "'"]
    ELSE exec

\* mutant of ExecuteTool: the registry catches the tool's exception itself
ExecuteToolCatching(registry, tool_name, exec) ==
    IF ~IsRegistered(registry, tool_name)
    THEN [kind |-> "return", value |-> "Tool '" \o tool_name \o "' not found"]
    ELSE IF exec.kind = "raise"
    THEN [kind |-> "return", value |-> "Tool execution failed: " \o exec.msg]
    ELSE exec

\* ToolManager.execute_tool: `exec` is what the resolved tool's execute does
ExecuteTool(registry, tool_name, exec) ==
    IF ~IsRegistered(registry, tool_name)
    THEN [kind |-> "return", value |-> "Tool '" \o tool_name \o "' not found"]
    ELSE exec

\* mutant of StoredSources: the sources are built but never assigned to
\* self.last_sources
StoredNowhere(sources, tool, exec) == sources

\* Tool.execute as far as the sources go: an execution that returns formatted
\* results stores their sources (search_tools.py:121, :217), one that raises
\* or finds nothing stores nothing
StoredSources(sources, tool, exec) ==
    IF exec.kind = "return" /\ exec # NoContent
    THEN [sources EXCEPT ![tool] = SourcesOf(tool, exec)]
    ELSE sources

\* mutant of SourcesAfter: a name that is not registered falls back to the
\* first registered tool
SourcesAfterFallback(registry, objs, sources, tool_name, exec) ==
    IF IsRegistered(registry, tool_name)
    THEN StoredSources(sources, ToolUnder(registry, objs, tool_name), exec)
    ELSE IF objs # <<>> THEN StoredSources(sources, objs[1], exec)
    ELSE sources

\* the effect of execute_tool on the tools' sources
SourcesAfter(registry, objs, sources, tool_name, exec) ==
    IF IsRegistered(registry, tool_name)
    THEN StoredSources(sources, ToolUnder(registry, objs, tool_name), exec)
    ELSE sources

\* the tool whose execution stored sources last: the executed tool when
\* execute_tool reached a tool that assigned its last_sources
StoredBy(registry, objs, stored, tool_name, exec) ==
    IF /\ IsRegistered(registry, tool_name)
       /\ exec.kind = "return" /\ exec # NoContent
    THEN ToolUnder(registry, objs, tool_name)
    ELSE stored

\* mutant of CopyList: no copy, the caller's list is appended to
NoCopy(obj) == obj

\* `messages = messages.copy()`: a new list object
CopyList(obj) == obj + 1

\* a list object changed in place: every holder of the object sees the change
WriteThrough(refs, obj, val) ==
    [k \in 1..Len(refs) |->
        IF refs[k].obj = obj THEN [obj |-> obj, val |-> val] ELSE refs[k]]

\* the try/except around execute_tool: one tool_result per tool_use block
ToolResult(content_block, res) ==
    IF res.kind = "return"
    THEN [type |-> "tool_result", tool_use_id |-> content_block.id,
          content |-> res.value]
    ELSE [type |-> "tool_result", tool_use_id |-> content_block.id,
          content |-> "Tool execution failed: " \o res.msg]

\* mutant of FoldMessages: one user message per tool result
FoldOnePerResult(msgs, results) ==
    msgs \o [i \in 1..Len(results) |-> [role |-> "user", content |-> <<results[i]>>]]

\* lines 104-106: `if tool_results: messages.append({"role": "user", ...})`
FoldMessages(msgs, results) ==
    IF results # <<>>
    THEN Append(msgs, [role |-> "user", content |-> results])
    ELSE msgs

\* `for round_num in range(1, 3)`
RoundRange == 1..2

\* mutant of AtMaxRounds: the forced final call is tied to a round the loop
\* never reaches
AtMaxRoundsThree(r) == r = 3

\* `if round_num == 2`
AtMaxRounds(r) == r = 2

\* mutant of AfterRound: the loop goes on for as long as tools are requested
AfterRoundUnbounded(r) == "call"

\* lines 148-154: where the run goes after the tools of round r were executed
AfterRound(r) ==
    IF AtMaxRounds(r) THEN "final"
    ELSE IF r + 1 \in RoundRange THEN "call"
    ELSE "fallback"

-----------------------------------------------------------------------------
(* The run *)

\* no ToolManager method was called directly, no concurrent query runs
NoCall == [op |-> None]

NoRuns == <<>>

\* what a run of generate_response never touches
outside_run == <<tool_manager, tool_objs, last_call, runs, registered,
                 last_stored>>

Init ==
    /\ tool_manager \in ToolManagers
    /\ tools \in ToolsArguments(tool_manager)
    /\ pc = "start"
    /\ round_num = 0
    /\ messages = <<>>
    /\ response = NoResponse
    /\ block_idx = 0
    /\ tool_results = <<>>
    /\ api_calls = <<>>
    /\ api_responses = <<>>
    /\ dispatched = <<>>
    /\ outcome = [kind |-> "running"]
    /\ messages_obj = 0
    /\ sent = <<>>
    /\ tool_objs = ToolObjectsOf(tool_manager)
    /\ last_sources = InitialSources
    /\ last_call = NoCall
    /\ runs = NoRuns
    /\ registered = ToolObjectsOf(tool_manager)
    /\ conversation_history = None
    /\ system_content = None
    /\ last_stored = None

\* mutant of Start: the run clears the registry's sources before it begins
StartResettingSources ==
    /\ pc = "start"
    /\ messages' = << [role |-> "user", content |-> QUERY] >>
    /\ messages_obj' = 1
    /\ round_num' = 1
    /\ pc' = "call"
    /\ last_sources' = [t \in ToolObjects |-> <<>>]
    /\ UNCHANGED <<tools, response, block_idx, tool_results,
                   api_calls, api_responses, dispatched, outcome, sent>>
    /\ UNCHANGED outside_run
    /\ system_content' = BuildSystemContent(conversation_history)
    /\ UNCHANGED conversation_history

\* lines 128-133: build the initial messages, enter the loop
Start ==
    /\ pc = "start"
    /\ messages' = << [role |-> "user", content |-> QUERY] >>
    /\ messages_obj' = 1
    /\ round_num' = 1
    /\ pc' = "call"
    /\ UNCHANGED <<tools, response, block_idx, tool_results,
                   api_calls, api_responses, dispatched, outcome, sent,
                   last_sources>>
    /\ UNCHANGED outside_run
    /\ system_content' = BuildSystemContent(conversation_history)
    /\ UNCHANGED conversation_history

\* mutant of ApiFailure: the failed call is swallowed and issued again
ApiFailureRetried ==
    /\ api_responses' = Append(api_responses,
           [raised |-> TRUE, stop_reason |-> None, content |-> <<>>])
    /\ UNCHANGED <<outcome, pc>>

\* line 73: client.messages.create raises; neither _make_api_call nor
\* generate_response catches, the exception reaches the caller
ApiFailure ==
    /\ api_responses' = Append(api_responses,
           [raised |-> TRUE, stop_reason |-> None, content |-> <<>>])
    /\ outcome' = [kind |-> "raise", exc |-> "APIError"]
    /\ pc' = "done"

\* line 73: client.messages.create answers with resp
ApiAnswer(resp) ==
    /\ api_responses' = Append(api_responses,
           [raised |-> FALSE, stop_reason |-> resp.stop_reason,
            content |-> resp.content])
    /\ response' = resp

\* `return response.content[0].text` (or the exception it raises)
Finish(resp) ==
    /\ outcome' = FirstText(resp)
    /\ pc' = "done"

\* lines 135-146 up to the first tool dispatch: one model call of the loop
RoundCall ==
    /\ pc = "call"
    /\ Len(api_calls) < MaxCalls
    /\ api_calls' = Append(api_calls,
           ApiParams(messages, system_content, CurrentTools(round_num, tools)))
    /\ LET handed == Append(sent, [obj |-> messages_obj, val |-> messages]) IN
       \/ /\ ApiFailure
          /\ sent' = handed
          /\ UNCHANGED <<response, messages, messages_obj, block_idx,
                         tool_results>>
       \/ \E resp \in ResponsesOf[Len(api_calls) + 1] :
             /\ ApiAnswer(resp)
             /\ IF resp.stop_reason # "tool_use" \/ tool_manager.is_none
                THEN /\ Finish(resp)
                     /\ sent' = handed
                     /\ UNCHANGED <<messages, messages_obj, block_idx,
                                    tool_results>>
                ELSE \* _execute_tools_and_update_messages, lines 79-83
                     /\ messages_obj' = CopyList(messages_obj)
                     /\ messages' = Append(messages,
                            [role |-> "assistant", content |-> resp.content])
                     /\ sent' = WriteThrough(handed, messages_obj', messages')
                     /\ tool_results' = <<>>
                     /\ block_idx' = 1
                     /\ pc' = "exec"
                     /\ UNCHANGED outcome
    /\ UNCHANGED <<tools, round_num, dispatched, last_sources>>
    /\ UNCHANGED outside_run
    /\ UNCHANGED <<conversation_history, system_content>>

\* mutant of Dispatch: a tool whose execution raised is executed a second time
DispatchRetrying(content_block, exec) ==
    LET executed == IsRegistered(tool_manager, content_block.name)
        res == ExecuteTool(tool_manager, content_block.name, exec)
        entry == [name |-> content_block.name, input |-> content_block.input,
                  id |-> content_block.id, executed |-> executed,
                  exec |-> IF executed THEN exec ELSE [kind |-> "none"],
                  result |-> res]
    IN  /\ dispatched' = IF res.kind = "raise"
                         THEN dispatched \o <<entry, entry>>
                         ELSE Append(dispatched, entry)
        /\ last_sources' = SourcesAfter(tool_manager, tool_objs, last_sources,
                                        content_block.name, exec)
        /\ tool_results' = Append(tool_results, ToolResult(content_block, res))
        /\ block_idx' = block_idx + 1
        /\ UNCHANGED <<pc, outcome>>

\* mutant of Dispatch: no try/except around execute_tool, a raise ends the run
DispatchUncaught(content_block, exec) ==
    LET executed == IsRegistered(tool_manager, content_block.name)
        res == ExecuteTool(tool_manager, content_block.name, exec)
    IN  /\ dispatched' = Append(dispatched,
               [name |-> content_block.name, input |-> content_block.input,
                id |-> content_block.id, executed |-> executed,
                exec |-> IF executed THEN exec ELSE [kind |-> "none"],
                result |-> res])
        /\ last_sources' = SourcesAfter(tool_manager, tool_objs, last_sources,
                                        content_block.name, exec)
        /\ IF res.kind = "raise"
           THEN /\ pc' = "done"
                /\ outcome' = [kind |-> "raise", exc |-> res.msg]
                /\ UNCHANGED <<tool_results, block_idx>>
           ELSE /\ tool_results' = Append(tool_results, ToolResult(content_block, res))
                /\ block_idx' = block_idx + 1
                /\ UNCHANGED <<pc, outcome>>

\* lines 86-102: dispatch one tool_use block; `exec` is what the tool's execute
\* does when execute_tool reaches it.  The except clause turns a raise into a
\* tool_result, the loop goes on.
Dispatch(content_block, exec) ==
    LET executed == IsRegistered(tool_manager, content_block.name)
        res == ExecuteTool(tool_manager, content_block.name, exec)
    IN  /\ dispatched' = Append(dispatched,
               [name |-> content_block.name, input |-> content_block.input,
                id |-> content_block.id, executed |-> executed,
                exec |-> IF executed THEN exec ELSE [kind |-> "none"],
                result |-> res])
        /\ last_sources' = SourcesAfter(tool_manager, tool_objs, last_sources,
                                        content_block.name, exec)
        /\ tool_results' = Append(tool_results, ToolResult(content_block, res))
        /\ block_idx' = block_idx + 1
        /\ UNCHANGED <<pc, outcome>>

\* mutant of ExecBlock: the loop goes through response.content backwards
ExecBlockReversed ==
    /\ pc = "exec"
    /\ block_idx <= Len(response.content)
    /\ LET content_block ==
            response.content[Len(response.content) + 1 - block_idx] IN
       IF content_block.type = "tool_use"
       THEN \E exec \in ToolOutcomes : Dispatch(content_block, exec)
       ELSE /\ block_idx' = block_idx + 1
            /\ UNCHANGED <<dispatched, tool_results, pc, outcome, last_sources>>
    /\ UNCHANGED <<tools, round_num, messages, messages_obj, sent, response,
                   api_calls, api_responses>>
    /\ UNCHANGED outside_run
    /\ UNCHANGED <<conversation_history, system_content>>

\* lines 84-102: one iteration of `for content_block in response.content`
ExecBlock ==
    /\ pc = "exec"
    /\ block_idx <= Len(response.content)
    /\ LET content_block == response.content[block_idx] IN
       IF content_block.type = "tool_use"
       THEN \E exec \in ToolOutcomes : Dispatch(content_block, exec)
       ELSE /\ block_idx' = block_idx + 1
            /\ UNCHANGED <<dispatched, tool_results, pc, outcome, last_sources>>
    /\ UNCHANGED <<tools, round_num, messages, messages_obj, sent, response,
                   api_calls, api_responses>>
    /\ UNCHANGED outside_run
    /\ UNCHANGED <<conversation_history, system_content>>

\* lines 104-108 and 148-154: fold the results, then the final call, the next
\* round, or the fallback after the loop
FoldResults ==
    /\ pc = "exec"
    /\ block_idx > Len(response.content)
    /\ messages' = FoldMessages(messages, tool_results)
    /\ sent' = WriteThrough(sent, messages_obj, messages')
    /\ LET next == AfterRound(round_num) IN
       IF next = "fallback"
       THEN /\ pc' = "done"
            /\ outcome' = [kind |-> "return",
                           value |-> "Error: Maximum rounds exceeded"]
            /\ UNCHANGED round_num
       ELSE /\ pc' = next
            /\ round_num' = IF next = "call" THEN round_num + 1 ELSE round_num
            /\ UNCHANGED outcome
    /\ UNCHANGED <<tools, response, block_idx, tool_results, messages_obj,
                   api_calls, api_responses, dispatched, last_sources>>
    /\ UNCHANGED outside_run
    /\ UNCHANGED <<conversation_history, system_content>>

\* lines 150-151: the forced final call, without tools
FinalCall ==
    /\ pc = "final"
    /\ Len(api_calls) < MaxCalls
    /\ api_calls' = Append(api_calls, ApiParams(messages, system_content, NoneList))
    /\ sent' = Append(sent, [obj |-> messages_obj, val |-> messages])
    /\ \/ /\ ApiFailure
          /\ UNCHANGED response
       \/ \E resp \in ResponsesOf[Len(api_calls) + 1] :
             /\ ApiAnswer(resp)
             /\ Finish(resp)
    /\ UNCHANGED <<tools, round_num, messages, messages_obj, block_idx,
                   tool_results, dispatched, last_sources>>
    /\ UNCHANGED outside_run
    /\ UNCHANGED <<conversation_history, system_content>>

Next == Start \/ RoundCall \/ ExecBlock \/ FoldResults \/ FinalCall

Spec == Init /\ [][Next]_vars

\* the `conversation_history` argument: None, the empty text, a rendered
\* history
Histories == {None, "", "User: What is MCP?\nAssistant: A protocol."}

\* a run with any conversation history; the system text does not depend on
\* the tools, the caller holds no tool manager or one without tools
HistoryInit ==
    /\ tool_manager \in {NoManager, ToolManager(<<>>)}
    /\ tools \in ToolsArguments(tool_manager)
    /\ conversation_history \in Histories
    /\ system_content = None
    /\ pc = "start"
    /\ round_num = 0
    /\ messages = <<>>
    /\ response = NoResponse
    /\ block_idx = 0
    /\ tool_results = <<>>
    /\ api_calls = <<>>
    /\ api_responses = <<>>
    /\ dispatched = <<>>
    /\ outcome = [kind |-> "running"]
    /\ messages_obj = 0
    /\ sent = <<>>
    /\ tool_objs = ToolObjectsOf(tool_manager)
    /\ last_sources = InitialSources
    /\ last_call = NoCall
    /\ runs = NoRuns
    /\ registered = ToolObjectsOf(tool_manager)
    /\ last_stored = None

HistorySpec == HistoryInit /\ [][Next]_vars

-----------------------------------------------------------------------------
(* The ToolManager on its own: its methods called in any order *)

\* Python truthiness of the definition's name: None and "" are falsy
HasName(tool) == DefinitionName(tool) # None /\ DefinitionName(tool) # ""

\* mutant of DictSet: `self.tools.setdefault(tool_name, tool)`, an existing
\* key keeps its value
DictSetDefault(registry, objs, tool_name, tool) ==
    IF IsRegistered(registry, tool_name)
    THEN [tools |-> registry.tools, objs |-> objs]
    ELSE [tools |-> Append(registry.tools, tool_name),
          objs  |-> Append(objs, tool)]

\* the dict assignment `self.tools[tool_name] = tool`: a new key goes last, an
\* existing key keeps its position and gets the new value
DictSet(registry, objs, tool_name, tool) ==
    IF IsRegistered(registry, tool_name)
    THEN [tools |-> registry.tools,
          objs  |-> [i \in 1..Len(objs) |->
                        IF registry.tools[i] = tool_name THEN tool ELSE objs[i]]]
    ELSE [tools |-> Append(registry.tools, tool_name),
          objs  |-> Append(objs, tool)]

\* mutant of RegisterResult: no check of the name, the tool is stored under
\* whatever key its definition yields
RegisterUnchecked(registry, objs, tool) ==
    LET set == DictSet(registry, objs, DefinitionName(tool), tool)
    IN  [raised |-> FALSE, exc |-> None, tools |-> set.tools, objs |-> set.objs]

\* ToolManager.register_tool: whether it raises, and self.tools afterwards
RegisterResult(registry, objs, tool) ==
    IF ~HasName(tool)
    THEN [raised |-> TRUE, exc |-> "ValueError",
          tools |-> registry.tools, objs |-> objs]
    ELSE LET set == DictSet(registry, objs, DefinitionName(tool), tool)
         IN  [raised |-> FALSE, exc |-> None,
              tools |-> set.tools, objs |-> set.objs]

\* mutant of GetToolDefinitionsOf: the definitions of self.tools.values()
\* in reverse order
GetToolDefinitionsReversed(objs) ==
    [i \in 1..Len(objs) |-> GetToolDefinition(objs[Len(objs) + 1 - i])]

\* ToolManager.get_tool_definitions on the values of self.tools:
\* `[tool.get_tool_definition() for tool in self.tools.values()]`
GetToolDefinitionsOf(objs) ==
    [i \in 1..Len(objs) |-> GetToolDefinition(objs[i])]

\* ToolManager.get_last_sources: the last_sources of the first tool, in the
\* order of self.tools, that has any
RECURSIVE FirstSources(_, _, _)
FirstSources(objs, sources, i) ==
    IF i > Len(objs) THEN <<>>
    ELSE IF sources[objs[i]] # <<>> THEN sources[objs[i]]
    ELSE FirstSources(objs, sources, i + 1)

GetLastSources(objs, sources) == FirstSources(objs, sources, 1)

\* mutant of ResetAll: the loop stops after the first tool
ResetFirstOnly(objs, sources) ==
    [t \in DOMAIN sources |->
        IF objs # <<>> /\ t = objs[1] THEN <<>> ELSE sources[t]]

\* ToolManager.reset_sources: every tool in self.tools gets an empty list
ResetAll(objs, sources) ==
    [t \in DOMAIN sources |->
        IF \E i \in 1..Len(objs) : objs[i] = t THEN <<>> ELSE sources[t]]

\* names a caller may pass to execute_tool
CalledNames == {"search_course_content", "get_course_outline", "no_such_tool"}

\* what the executed tool may do
RegistryOutcomes == ToolOutcomes \cup {NoContent}

\* a new ToolManager, new Tool objects, no run of generate_response
RegistryInit ==
    /\ tool_manager = ToolManager(<<>>)
    /\ tool_objs = <<>>
    /\ last_sources = [t \in ToolObjects |-> <<>>]
    /\ last_call = NoCall
    /\ runs = NoRuns
    /\ registered = <<>>
    /\ conversation_history = None
    /\ system_content = None
    /\ last_stored = None
    /\ tools = NoneList
    /\ pc = "start"
    /\ round_num = 0
    /\ messages = <<>>
    /\ response = NoResponse
    /\ block_idx = 0
    /\ tool_results = <<>>
    /\ api_calls = <<>>
    /\ api_responses = <<>>
    /\ dispatched = <<>>
    /\ outcome = [kind |-> "running"]
    /\ messages_obj = 0
    /\ sent = <<>>

\* what the registry had before the call
Before == [tools |-> tool_manager.tools, objs |-> tool_objs,
           sources |-> last_sources]

\* manager.register_tool(tool)
RegisterTool ==
    \E tool \in ToolObjects :
        LET res == RegisterResult(tool_manager, tool_objs, tool) IN
        /\ Len(registered) < MaxRegistrations
        /\ tool_manager' = ToolManager(res.tools)
        /\ tool_objs' = res.objs
        /\ registered' = IF res.raised THEN registered
                                       ELSE Append(registered, tool)
        /\ last_call' = [op |-> "register_tool", tool |-> tool,
                         raised |-> res.raised, exc |-> res.exc,
                         before |-> Before]
        /\ UNCHANGED <<last_sources, runs, last_stored>>
        /\ UNCHANGED run_vars

\* manager.execute_tool(tool_name, **kwargs)
ExecuteToolCall ==
    \E tool_name \in CalledNames, exec \in RegistryOutcomes :
        /\ last_sources' = SourcesAfter(tool_manager, tool_objs, last_sources,
                                        tool_name, exec)
        /\ last_stored' = StoredBy(tool_manager, tool_objs, last_stored,
                                   tool_name, exec)
        /\ last_call' = [op |-> "execute_tool", name |-> tool_name,
                         executed |-> IsRegistered(tool_manager, tool_name),
                         result |-> ExecuteTool(tool_manager, tool_name, exec),
                         before |-> Before]
        /\ UNCHANGED <<tool_manager, tool_objs, runs, registered>>
        /\ UNCHANGED run_vars

\* manager.get_tool_definitions()
GetToolDefinitionsCall ==
    /\ last_call' = [op |-> "get_tool_definitions",
                     result |-> GetToolDefinitionsOf(tool_objs),
                     before |-> Before]
    /\ UNCHANGED <<tool_manager, tool_objs, last_sources, runs, registered,
                   last_stored>>
    /\ UNCHANGED run_vars

\* manager.get_last_sources()
GetLastSourcesCall ==
    /\ last_call' = [op |-> "get_last_sources",
                     result |-> GetLastSources(tool_objs, last_sources),
                     before |-> Before]
    /\ UNCHANGED <<tool_manager, tool_objs, last_sources, runs, registered,
                   last_stored>>
    /\ UNCHANGED run_vars

\* manager.reset_sources()
ResetSourcesCall ==
    /\ last_sources' = ResetAll(tool_objs, last_sources)
    /\ last_stored' = None
    /\ last_call' = [op |-> "reset_sources", before |-> Before]
    /\ UNCHANGED <<tool_manager, tool_objs, runs, registered>>
    /\ UNCHANGED run_vars

RegistryNext ==
    \/ RegisterTool
    \/ ExecuteToolCall
    \/ GetToolDefinitionsCall
    \/ GetLastSourcesCall
    \/ ResetSourcesCall

RegistrySpec == RegistryInit /\ [][RegistryNext]_vars

-----------------------------------------------------------------------------
(* Two top-level queries at once: each calls generate_response on the one   *)
(* AIGenerator with the one ToolManager, then reads the sources and resets  *)
(* them.  A step is one model call, one tool execution or one ToolManager   *)
(* call; the steps of the two queries interleave freely.                    *)

Queries == {"A", "B"}

QueryOf(q) == "question of " \o q

\* mutant of Frame: the conversation is kept on the AIGenerator instance
InstanceFrame(q) == "A"

\* the frame that holds the local `messages` of the run of query q: every
\* call of generate_response has its own
Frame(q) == q

\* what the model answers to the k-th call of query q: a text, or a request
\* for one search about the query
AnswersTo(q, k) ==
    { [stop_reason |-> "end_turn",
       content |-> << [type |-> "text",
                       text |-> Label("text_" \o q \o "_", k, 1)] >>],
      [stop_reason |-> "tool_use",
       content |-> << [type |-> "tool_use",
                       id |-> Label("toolu_" \o q \o "_", k, 1),
                       name |-> "search_course_content",
                       input |-> [query |-> QueryOf(q)]] >>] }

\* the search tool finds results for what it is asked
SearchOutcome(input) == [kind |-> "return", value |-> "results for " \o input.query]

NotRead == [done |-> FALSE, val |-> <<>>, after |-> NoCall]

ConcInit ==
    /\ tool_manager = ToolManager(RegisteredTools)
    /\ tool_objs = ApplicationTools
    /\ last_sources = [t \in ToolObjects |-> <<>>]
    /\ last_call = NoCall
    /\ runs = [q \in Queries |->
                 [pc |-> "start", round_num |-> 0, messages |-> <<>>,
                  response |-> NoResponse, block_idx |-> 0,
                  tool_results |-> <<>>, sent |-> <<>>, answers |-> <<>>,
                  outcome |-> [kind |-> "running"], read |-> NotRead]]
    /\ registered = ApplicationTools
    /\ conversation_history = None
    /\ system_content = None
    /\ last_stored = None
    /\ tools = NoneList
    /\ pc = "start"
    /\ round_num = 0
    /\ messages = <<>>
    /\ response = NoResponse
    /\ block_idx = 0
    /\ tool_results = <<>>
    /\ api_calls = <<>>
    /\ api_responses = <<>>
    /\ dispatched = <<>>
    /\ outcome = [kind |-> "running"]
    /\ messages_obj = 0
    /\ sent = <<>>

\* the tools argument of the caller: tool_manager.get_tool_definitions()
QueryTools == SomeList(GetToolDefinitions(tool_manager))

\* what a step of a query never touches
outside_query == <<tool_manager, tool_objs, run_vars, registered, last_stored>>

\* the caller after generate_response: it reads the sources when a text came
\* back; an exception leaves the query at once
AfterGenerate(out) == IF out.kind = "return" THEN "read" ELSE "end"

\* lines 128-133 in the run of query q
QStart(q) ==
    /\ runs[q].pc = "start"
    /\ runs' = [runs EXCEPT ![q].pc = "call", ![q].round_num = 1,
                   ![Frame(q)].messages =
                       << [role |-> "user", content |-> QueryOf(q)] >>]
    /\ UNCHANGED <<last_sources, last_call>>
    /\ UNCHANGED outside_query

\* lines 135-146 and 79-83 in the run of query q
QRoundCall(q) ==
    /\ runs[q].pc = "call"
    /\ LET msgs == runs[Frame(q)].messages
           k == Len(runs[q].sent) + 1
           params == ApiParams(msgs, SYSTEM_PROMPT,
                               CurrentTools(runs[q].round_num, QueryTools))
       IN \E resp \in AnswersTo(q, k) :
            IF resp.stop_reason # "tool_use" \/ tool_manager.is_none
            THEN runs' = [runs EXCEPT
                     ![q].sent = Append(@, params.messages),
                     ![q].answers = Append(@, resp),
                     ![q].response = resp,
                     ![q].outcome = FirstText(resp),
                     ![q].pc = AfterGenerate(FirstText(resp))]
            ELSE runs' = [runs EXCEPT
                     ![q].sent = Append(@, params.messages),
                     ![q].answers = Append(@, resp),
                     ![q].response = resp,
                     ![q].tool_results = <<>>,
                     ![q].block_idx = 1,
                     ![q].pc = "exec",
                     ![Frame(q)].messages = Append(msgs,
                         [role |-> "assistant", content |-> resp.content])]
    /\ UNCHANGED <<last_sources, last_call>>
    /\ UNCHANGED outside_query

\* lines 84-102 in the run of query q: one content block
QExecBlock(q) ==
    /\ runs[q].pc = "exec"
    /\ runs[q].block_idx <= Len(runs[q].response.content)
    /\ LET content_block == runs[q].response.content[runs[q].block_idx] IN
       IF content_block.type = "tool_use"
       THEN LET exec == SearchOutcome(content_block.input)
                res == ExecuteTool(tool_manager, content_block.name, exec)
            IN  /\ last_sources' = SourcesAfter(tool_manager, tool_objs,
                                       last_sources, content_block.name, exec)
                /\ last_call' = [op |-> "execute_tool", by |-> q]
                /\ runs' = [runs EXCEPT
                       ![q].tool_results =
                           Append(@, ToolResult(content_block, res)),
                       ![q].block_idx = @ + 1]
       ELSE /\ runs' = [runs EXCEPT ![q].block_idx = @ + 1]
            /\ UNCHANGED <<last_sources, last_call>>
    /\ UNCHANGED outside_query

\* lines 104-108 and 148-154 in the run of query q
QFoldResults(q) ==
    /\ runs[q].pc = "exec"
    /\ runs[q].block_idx > Len(runs[q].response.content)
    /\ LET next == AfterRound(runs[q].round_num)
           folded == FoldMessages(runs[Frame(q)].messages, runs[q].tool_results)
       IN  IF next = "fallback"
           THEN runs' = [runs EXCEPT
                    ![q].pc = AfterGenerate([kind |-> "return"]),
                    ![q].outcome = [kind |-> "return",
                                    value |-> "Error: Maximum rounds exceeded"],
                    ![Frame(q)].messages = folded]
           ELSE runs' = [runs EXCEPT
                    ![q].pc = next,
                    ![q].round_num = IF next = "call" THEN @ + 1 ELSE @,
                    ![Frame(q)].messages = folded]
    /\ UNCHANGED <<last_sources, last_call>>
    /\ UNCHANGED outside_query

\* lines 150-151 in the run of query q
QFinalCall(q) ==
    /\ runs[q].pc = "final"
    /\ LET params == ApiParams(runs[Frame(q)].messages, SYSTEM_PROMPT, NoneList)
           k == Len(runs[q].sent) + 1
       IN \E resp \in AnswersTo(q, k) :
            runs' = [runs EXCEPT
                ![q].sent = Append(@, params.messages),
                ![q].answers = Append(@, resp),
                ![q].response = resp,
                ![q].outcome = FirstText(resp),
                ![q].pc = AfterGenerate(FirstText(resp))]
    /\ UNCHANGED <<last_sources, last_call>>
    /\ UNCHANGED outside_query

\* the caller, after generate_response returned: sources = get_last_sources()
QReadSources(q) ==
    /\ runs[q].pc = "read"
    /\ runs' = [runs EXCEPT
           ![q].read = [done |-> TRUE,
                        val |-> GetLastSources(tool_objs, last_sources),
                        after |-> last_call],
           ![q].pc = "reset"]
    /\ UNCHANGED <<last_sources, last_call>>
    /\ UNCHANGED outside_query

\* the caller, after reading the sources: reset_sources()
QResetSources(q) ==
    /\ runs[q].pc = "reset"
    /\ last_sources' = ResetAll(tool_objs, last_sources)
    /\ last_call' = [op |-> "reset_sources", by |-> q]
    /\ runs' = [runs EXCEPT ![q].pc = "end"]
    /\ UNCHANGED outside_query

ConcNext ==
    \E q \in Queries :
        \/ QStart(q)
        \/ QRoundCall(q)
        \/ QExecBlock(q)
        \/ QFoldResults(q)
        \/ QFinalCall(q)
        \/ QReadSources(q)
        \/ QResetSources(q)

ConcSpec == ConcInit /\ [][ConcNext]_vars

-----------------------------------------------------------------------------
(* Vocabulary of the properties *)

\* the run is over: generate_response returned or raised
Done == pc = "done"

Returned == Done /\ outcome.kind = "return"

\* no model call of the run raised
NoApiFailure == \A k \in 1..Len(api_responses) : ~api_responses[k].raised

IsToolUse(b) == b.type = "tool_use"

\* the tool_use blocks of a content list, in order
ToolUseBlocks(content) == SelectSeq(content, IsToolUse)

\* the k-th model call was answered and the answer asks for tool use: its
\* stop reason says so and it carries at least one tool_use block
RequestsToolUse(k) ==
    /\ k <= Len(api_responses)
    /\ ~api_responses[k].raised
    /\ api_responses[k].stop_reason = "tool_use"
    /\ ToolUseBlocks(api_responses[k].content) # <<>>

\* the k-th model call was answered and the answer does not ask for tool use
AnswersDirectly(k) ==
    /\ k <= Len(api_responses)
    /\ ~api_responses[k].raised
    /\ api_responses[k].stop_reason # "tool_use"
    /\ ToolUseBlocks(api_responses[k].content) = <<>>

\* an assistant message whose tool calls were all handled: every one but the
\* last message while its tool calls are being executed
Folded(j) ==
    /\ messages[j].role = "assistant"
    /\ j < Len(messages) \/ pc # "exec"

\* a results message: a user message after the query
IsResultsMessage(m) == m.role = "user" /\ m.content # QUERY

\* r is one of the tool_results of a results message of msgs
ResultIn(msgs, r) ==
    \E j \in 2..Len(msgs) :
        /\ msgs[j].role = "user"
        /\ \E i \in 1..Len(msgs[j].content) : msgs[j].content[i] = r

\* r is a tool_result produced so far: folded into the messages, or among
\* those being collected
ResultSeen(r) ==
    \/ \E i \in 1..Len(tool_results) : tool_results[i] = r
    \/ ResultIn(messages, r)

\* r is a tool_result sent to the model in its k-th call
ResultSentIn(k, r) == ResultIn(api_calls[k].messages, r)

FailureText(msg) == "Tool execution failed: " \o msg

NotFoundText(tool_name) == "Tool '" \o tool_name \o "' not found"

\* the tool_use blocks of the answers to the calls before the k-th
RECURSIVE ToolUseBlocksBefore(_)
ToolUseBlocksBefore(k) ==
    IF k <= 1 THEN <<>>
    ELSE ToolUseBlocksBefore(k - 1) \o ToolUseBlocks(api_responses[k - 1].content)

\* the call ids of a sequence of tool_use blocks or of dispatches
IdsOf(seq) == [i \in 1..Len(seq) |-> seq[i].id]

\* list a is the beginning of list b
IsPrefix(a, b) == Len(a) <= Len(b) /\ SubSeq(b, 1, Len(a)) = a

\* a dispatch of the run executed tool t and stored sources
StoredByDispatch(t) ==
    \E i \in 1..Len(dispatched) :
        /\ dispatched[i].executed
        /\ dispatched[i].exec.kind = "return"
        /\ ToolUnder(tool_manager, tool_objs, dispatched[i].name) = t

\* the sources a search of query q stores
SourcesFoundFor(q) ==
    SearchSources(SearchOutcome([query |-> QueryOf(q)]).value)

\* the call ids of the tool_use blocks the model sent to query q
CallIdsOf(q) ==
    UNION { {runs[q].answers[k].content[i].id :
                i \in {n \in 1..Len(runs[q].answers[k].content) :
                         IsToolUse(runs[q].answers[k].content[n])}} :
            k \in 1..Len(runs[q].answers) }

\* message m belongs to the conversation of query q: its question, one of
\* the model's responses to it, or the results of its tool calls
OwnMessage(q, m) ==
    \/ m = [role |-> "user", content |-> QueryOf(q)]
    \/ /\ m.role = "assistant"
       /\ \E k \in 1..Len(runs[q].answers) : m.content = runs[q].answers[k].content
    \/ /\ m.role = "user"
       /\ \A o \in Queries : m.content # QueryOf(o)
       /\ \A i \in 1..Len(m.content) :
             /\ m.content[i].type = "tool_result"
             /\ m.content[i].tool_use_id \in CallIdsOf(q)
             /\ m.content[i].content = "results for " \o QueryOf(q)

\* the value returned is the text of the first content block of the k-th answer
ReturnsTextOf(k) ==
    /\ outcome.kind = "return"
    /\ Len(api_responses[k].content) >= 1
    /\ api_responses[k].content[1].type = "text"
    /\ outcome.value = api_responses[k].content[1].text

-----------------------------------------------------------------------------
(* C1: in every run, whatever the model answers and whatever the tools do,   *)
(* at most 3 model calls are issued: the call of round 1, possibly the call  *)
(* of round 2, possibly one forced final call.                               *)
C1_AtMostThreeModelCalls ==
    /\ Len(api_calls) <= 3
    /\ Len(api_calls) <= round_num + (IF pc = "done" /\ round_num = 2 THEN 1 ELSE 0)
    /\ round_num <= 2

\* a run that made all three calls
C1_Witness ==
    /\ Done
    /\ Len(api_calls) = 3
    /\ RequestsToolUse(3)

-----------------------------------------------------------------------------
(* C2: when no model call raises, generate_response always ends by          *)
(* returning a text value, never with an exception, whatever stop reason    *)
(* and content blocks each response carries.                                *)
C2_AlwaysReturnsText ==
    (Done /\ NoApiFailure) => outcome.kind = "return"

-----------------------------------------------------------------------------
(* C3: the tool definitions (and tool_choice) are passed to the model only  *)
(* in the first model call of a run; the call of round 2 and the forced     *)
(* final call never carry them.                                             *)
C3_ToolsOnlyInFirstCall ==
    \A k \in 1..Len(api_calls) :
        /\ k >= 2 => /\ "tools" \notin DOMAIN api_calls[k]
                     /\ "tool_choice" \notin DOMAIN api_calls[k]
        /\ (k = 1 /\ Truthy(tools)) =>
                     /\ "tools" \in DOMAIN api_calls[k]
                     /\ api_calls[k].tools = tools.val
                     /\ api_calls[k].tool_choice = [type |-> "auto"]

\* three calls were made by a caller that supplied tools
C3_Witness ==
    /\ Len(api_calls) = 3
    /\ Truthy(tools)
    /\ "tools" \in DOMAIN api_calls[1]
    /\ RequestsToolUse(1) /\ RequestsToolUse(2)

-----------------------------------------------------------------------------
(* C4: if the round-1 response contains no tool-call block, the run makes   *)
(* exactly 1 model call, dispatches no tool and returns that response's     *)
(* text unchanged; a supplied tool list is in that call's parameters.       *)
C4_NoToolBlocksOneCall ==
    ( /\ Done
      /\ Len(api_responses) >= 1
      /\ ~api_responses[1].raised
      /\ ToolUseBlocks(api_responses[1].content) = <<>> )
    => /\ Len(api_calls) = 1
       /\ dispatched = <<>>
       /\ ReturnsTextOf(1)
       /\ Truthy(tools) => "tools" \in DOMAIN api_calls[1]

-----------------------------------------------------------------------------
(* C5: if the model requests tool use in round 1 and in round 2, the run    *)
(* dispatches the tool calls of both responses, issues exactly one further  *)
(* model call with all accumulated messages and no tools, and returns that  *)
(* third response's text unconditionally: its tool-call blocks are never    *)
(* dispatched and no fourth call follows.                                   *)
C5_ForcedFinalCall ==
    ( /\ Done
      /\ ~tool_manager.is_none
      /\ NoApiFailure
      /\ RequestsToolUse(1)
      /\ RequestsToolUse(2) )
    => /\ Len(api_calls) = 3
       /\ IdsOf(dispatched) =
              IdsOf(ToolUseBlocks(api_responses[1].content)
                    \o ToolUseBlocks(api_responses[2].content))
       /\ api_calls[3].messages = messages
       /\ "tools" \notin DOMAIN api_calls[3]
       /\ ReturnsTextOf(3)

-----------------------------------------------------------------------------
(* C6: if the model requests tool use in round 1 and its round-2 response   *)
(* does not, the run makes exactly 2 model calls, dispatches only the tool  *)
(* calls of the round-1 response, makes no forced final call and returns    *)
(* the round-2 text.                                                        *)
C6_EarlyTermination ==
    ( /\ Done
      /\ ~tool_manager.is_none
      /\ RequestsToolUse(1)
      /\ AnswersDirectly(2) )
    => /\ Len(api_calls) = 2
       /\ IdsOf(dispatched) = IdsOf(ToolUseBlocks(api_responses[1].content))
       /\ ReturnsTextOf(2)

-----------------------------------------------------------------------------
(* C7: for a tool-requesting response with N >= 1 tool-call blocks,         *)
(* _execute_tools_and_update_messages appends exactly one results message   *)
(* holding exactly N tool results, the i-th carrying the call id of the     *)
(* i-th tool-call block, whether the dispatches succeeded or failed.        *)
C7_OneResultPerToolCall ==
    \A j \in 1..Len(messages) :
        (Folded(j) /\ ToolUseBlocks(messages[j].content) # <<>>) =>
            LET calls == ToolUseBlocks(messages[j].content) IN
            /\ j + 1 <= Len(messages)
            /\ messages[j + 1].role = "user"
            /\ Len(messages[j + 1].content) = Len(calls)
            /\ \A i \in 1..Len(calls) :
                  /\ messages[j + 1].content[i].type = "tool_result"
                  /\ messages[j + 1].content[i].tool_use_id = calls[i].id
            /\ j + 2 <= Len(messages) => messages[j + 2].role = "assistant"

\* a results message for two tool calls, the first failed, the second succeeded
C7_Witness ==
    \E j \in 2..Len(messages) :
        /\ IsResultsMessage(messages[j])
        /\ Len(messages[j].content) = 2
        /\ messages[j].content[1].content = FailureText("Course not found")
        /\ messages[j].content[2].content = "Python search results"
        /\ messages[j].content[1].tool_use_id # messages[j].content[2].tool_use_id

-----------------------------------------------------------------------------
-----------------------------------------------------------------------------
(* C9: when the dispatch of one tool-call block raises, the exception does  *)
(* not leave generate_response: the block gets the result text "Tool        *)
(* execution failed: <message>", every remaining tool-call block of the     *)
(* same response is still dispatched, and the run goes on to issue the next *)
(* model call with that failure text in its messages.                       *)
C9_ToolFailureContained ==
    /\ (~Done /\ \E i \in 1..Len(dispatched) : dispatched[i].result.kind = "raise")
           => ENABLED Next
    /\ \A i \in 1..Len(dispatched) :
        dispatched[i].result.kind = "raise" =>
            LET d == dispatched[i]
                failure == [type |-> "tool_result", tool_use_id |-> d.id,
                            content |-> FailureText(d.result.msg)]
            IN
            /\ ~(outcome.kind = "raise" /\ outcome.exc = d.result.msg)
            /\ ResultSeen(failure)
            /\ \A j \in 1..Len(messages) :
                  ( /\ Folded(j)
                    /\ \E b \in 1..Len(messages[j].content) :
                          /\ IsToolUse(messages[j].content[b])
                          /\ messages[j].content[b].id = d.id )
                  => \A b \in 1..Len(messages[j].content) :
                        IsToolUse(messages[j].content[b]) =>
                            \E n \in 1..Len(dispatched) :
                                dispatched[n].id = messages[j].content[b].id
            /\ Done => ResultSentIn(Len(api_calls), failure)

\* the first of two tool calls of a response raised, the second was still
\* dispatched, and the run returned a text
C9_Witness ==
    /\ Returned
    /\ \E i \in 1..Len(dispatched) :
          /\ dispatched[i].result.kind = "raise"
          /\ i + 1 <= Len(dispatched)
          /\ \E j \in 1..Len(messages) :
                /\ messages[j].role = "assistant"
                /\ IdsOf(ToolUseBlocks(messages[j].content))
                       = <<dispatched[i].id, dispatched[i + 1].id>>

-----------------------------------------------------------------------------
(* C10: an exception raised by any model call of a run (first, second or    *)
(* forced final) propagates to the caller: the call is not retried and no   *)
(* further model call or tool dispatch happens in the run.                  *)
C10_ApiFailurePropagates ==
    \A k \in 1..Len(api_responses) :
        api_responses[k].raised =>
            /\ k = Len(api_responses)
            /\ Len(api_calls) = k
            /\ Done
            /\ outcome = [kind |-> "raise", exc |-> "APIError"]
            /\ IdsOf(dispatched) = IdsOf(ToolUseBlocksBefore(k))
            /\ ~ENABLED Next

\* the forced final call raised after two rounds of tool use
C10_Witness ==
    /\ Len(api_responses) = 3
    /\ api_responses[3].raised
    /\ RequestsToolUse(1) /\ RequestsToolUse(2)
    /\ outcome.kind = "raise"

-----------------------------------------------------------------------------
(* C11: execute_tool called with a name that is not registered returns the  *)
(* text "Tool '<name>' not found" and does not raise; inside                *)
(* generate_response that text becomes the tool result of the call and the  *)
(* round continues to the next model call.                                  *)
C11_UnknownToolNotFound ==
    \A i \in 1..Len(dispatched) :
        ~IsRegistered(tool_manager, dispatched[i].name) =>
            LET d == dispatched[i]
                notfound == [type |-> "tool_result", tool_use_id |-> d.id,
                             content |-> NotFoundText(d.name)]
            IN
            /\ ~d.executed
            /\ d.result = [kind |-> "return", value |-> NotFoundText(d.name)]
            /\ ResultSeen(notfound)
            /\ pc \in {"exec", "call", "final", "done"}
            /\ Done => /\ Len(api_calls) >= 2
                       /\ ResultSentIn(Len(api_calls), notfound)

\* the application's registry was asked for a tool it does not hold, and the
\* run went on to a model call that answered with a text
C11_Witness ==
    /\ Returned
    /\ tool_manager = ToolManager(RegisteredTools)
    /\ Len(api_calls) = 2
    /\ \E i \in 1..Len(dispatched) :
          /\ dispatched[i].name = "no_such_tool"
          /\ dispatched[i].result.value = "Tool 'no_such_tool' not found"

-----------------------------------------------------------------------------
(* C12: called without a tool manager, generate_response makes exactly 1    *)
(* model call, dispatches nothing and returns the raw model text of that    *)
(* first response, also when the response requested tool use.               *)
C12_NoManagerOneCall ==
    ( /\ Done
      /\ tool_manager.is_none
      /\ Len(api_responses) >= 1
      /\ ~api_responses[1].raised )
    => /\ Len(api_calls) = 1
       /\ dispatched = <<>>
       /\ ReturnsTextOf(1)

-----------------------------------------------------------------------------
(* C13: the message list sent to the model grows append-only within one     *)
(* run: the list of each model call is the list of the previous call        *)
(* followed by newly appended messages, and the list captured at an earlier *)
(* call keeps its length and content.                                       *)
C13_MessagesAppendOnly ==
    /\ Len(sent) = Len(api_calls)
    /\ \A k \in 1..Len(api_calls) :
          /\ sent[k].val = api_calls[k].messages
          /\ IsPrefix(api_calls[k].messages, messages)
          /\ k < Len(api_calls) =>
                /\ IsPrefix(api_calls[k].messages, api_calls[k + 1].messages)
                /\ Len(api_calls[k].messages) < Len(api_calls[k + 1].messages)

\* three calls, each with a longer list; the first two lists were captured
\* before tool results were folded in
C13_Witness ==
    /\ Done
    /\ Len(api_calls) = 3
    /\ Len(sent[1].val) = 1
    /\ Len(sent[2].val) = 3
    /\ Len(sent[3].val) = 5

-----------------------------------------------------------------------------
(* C16: generate_response never resets the registry's sources: during a run *)
(* the tools' source lists change only as an effect of the tool executions  *)
(* it dispatches, and a run with no tool dispatch leaves every tool's       *)
(* source list exactly as it was before the run.                            *)
C16_SourcesOnlyByDispatch ==
    /\ dispatched = <<>> => last_sources = InitialSources
    /\ \A t \in ToolObjects :
          IF StoredByDispatch(t)
          THEN last_sources[t] = ResultSources
          ELSE last_sources[t] = InitialSources[t]

\* a run ended without a storing dispatch and the stale sources are still
\* there, although a tool was dispatched and raised
C16_Witness ==
    /\ Returned
    /\ Len(api_calls) = 3
    /\ last_sources["search_tool"] = StaleSources
    /\ \E i \in 1..Len(dispatched) : dispatched[i].executed

-----------------------------------------------------------------------------
(* C14: get_last_sources returns the sources accumulated from all tools     *)
(* since the last reset_sources: after a search execution and an outline    *)
(* execution that both produced sources, with no reset in between, the      *)
(* returned sequence contains the sources of both tools.                    *)
C14_SourcesOfAllTools ==
    last_call.op = "get_last_sources" =>
        \A i \in 1..Len(tool_objs) :
            \A n \in 1..Len(last_sources[tool_objs[i]]) :
                \E m \in 1..Len(last_call.result) :
                    last_call.result[m] = last_sources[tool_objs[i]][n]

-----------------------------------------------------------------------------
(* C15: after reset_sources, get_last_sources returns an empty sequence,    *)
(* whatever registrations and tool executions preceded the reset;           *)
(* reset_sources leaves the set of registered tools unchanged.              *)
C15_ResetClearsSources ==
    last_call.op = "reset_sources" =>
        /\ GetLastSources(tool_objs, last_sources) = <<>>
        /\ \A i \in 1..Len(tool_objs) : last_sources[tool_objs[i]] = <<>>
        /\ tool_manager.tools = last_call.before.tools
        /\ tool_objs = last_call.before.objs

\* a reset of a registry whose two tools both held sources
C15_Witness ==
    /\ last_call.op = "reset_sources"
    /\ tool_objs = ApplicationTools
    /\ last_call.before.sources["search_tool"] = ResultSources
    /\ last_call.before.sources["outline_tool"] = OutlineSources

-----------------------------------------------------------------------------
(* C19: register_tool with a tool whose definition name is already          *)
(* registered fails with an error and leaves the registry unchanged: the    *)
(* previously registered tool stays the one dispatched under that name.     *)
C19_DuplicateNameRejected ==
    ( /\ last_call.op = "register_tool"
      /\ \E i \in 1..Len(last_call.before.tools) :
            last_call.before.tools[i] = DefinitionName(last_call.tool) )
    => /\ last_call.raised
       /\ tool_manager.tools = last_call.before.tools
       /\ tool_objs = last_call.before.objs

(* C19 as amended: register_tool with a tool whose definition name is       *)
(* already registered does not fail: it replaces the tool stored under that *)
(* name, keeping the name's position and every other entry, and the newly   *)
(* registered tool is the one dispatched under that name.                   *)
C19_DuplicateNameReplaces ==
    ( /\ last_call.op = "register_tool"
      /\ \E i \in 1..Len(last_call.before.tools) :
            last_call.before.tools[i] = DefinitionName(last_call.tool) )
    => /\ ~last_call.raised
       /\ tool_manager.tools = last_call.before.tools
       /\ Len(tool_objs) = Len(last_call.before.objs)
       /\ \A i \in 1..Len(tool_objs) :
             tool_objs[i] =
                 IF tool_manager.tools[i] = DefinitionName(last_call.tool)
                 THEN last_call.tool
                 ELSE last_call.before.objs[i]
       /\ ToolUnder(tool_manager, tool_objs, DefinitionName(last_call.tool))
              = last_call.tool

\* a second search tool was registered over the first, next to the outline tool
C19_Witness ==
    /\ last_call.op = "register_tool"
    /\ last_call.tool = "search_tool_2"
    /\ last_call.before.objs = ApplicationTools
    /\ tool_objs = << "search_tool_2", "outline_tool" >>

-----------------------------------------------------------------------------
(* C20: register_tool with a tool whose definition has no name or an empty  *)
(* name fails with an error and leaves the registry unchanged: the          *)
(* registered tools and get_tool_definitions are the same as before.        *)
C20_NamelessToolRejected ==
    ( /\ last_call.op = "register_tool"
      /\ DefinitionName(last_call.tool) \in {None, ""} )
    => /\ last_call.raised
       /\ last_call.exc = "ValueError"
       /\ tool_manager.tools = last_call.before.tools
       /\ tool_objs = last_call.before.objs
       /\ GetToolDefinitions(tool_manager)
              = GetToolDefinitions(ToolManager(last_call.before.tools))
       /\ ~IsRegistered(tool_manager, "")
       /\ ~IsRegistered(tool_manager, None)

\* a tool with an empty name was offered to a registry that holds two tools
C20_Witness ==
    /\ last_call.op = "register_tool"
    /\ last_call.tool = "empty_name_tool"
    /\ last_call.raised
    /\ tool_manager = ToolManager(RegisteredTools)

-----------------------------------------------------------------------------
(* C17: when two top-level queries run concurrently against one ToolManager *)
(* the sources are last-writer-wins whoever the writer is: what a query     *)
(* reads after its generate_response is what the latest storing tool        *)
(* execution of either query left, or nothing after either query's          *)
(* reset_sources; so an interleaving exists in which it reads the other     *)
(* query's sources or loses its own to the other's reset (the witness).     *)
C17_SourcesRaceBetweenQueries ==
    \A q \in Queries :
        runs[q].read.done =>
            LET after == runs[q].read.after IN
            /\ after.op = "execute_tool" =>
                   runs[q].read.val = SourcesFoundFor(after.by)
            /\ after.op = "reset_sources" => runs[q].read.val = <<>>
            /\ after.op = None => runs[q].read.val = <<>>

\* both queries searched; A read the sources of B's search, and B read
\* nothing because A had reset them
C17_Witness ==
    /\ Len(runs["A"].sent) >= 2
    /\ Len(runs["B"].sent) >= 2
    /\ runs["A"].read.done
    /\ runs["A"].read.val = SourcesFoundFor("B")
    /\ runs["B"].read.done
    /\ runs["B"].read.val = <<>>
    /\ runs["B"].read.after = [op |-> "reset_sources", by |-> "A"]

-----------------------------------------------------------------------------
(* C18: two generate_response runs executing concurrently on the same       *)
(* AIGenerator and ToolManager do not share their conversation: under every *)
(* interleaving each message list a run sends to the model contains only    *)
(* that run's query, that run's model responses and the results of that     *)
(* run's tool calls.                                                        *)
C18_ConversationsNotShared ==
    \A q \in Queries :
        \A k \in 1..Len(runs[q].sent) :
            LET list == runs[q].sent[k] IN
            /\ list # <<>>
            /\ list[1] = [role |-> "user", content |-> QueryOf(q)]
            /\ \A j \in 1..Len(list) : OwnMessage(q, list[j])
            /\ \A o \in Queries \ {q} :
                  \A j \in 1..Len(list) : ~OwnMessage(o, list[j])

\* both runs made their three model calls, and their tool executions
\* alternated: B's search ran between A's two searches
C18_Witness ==
    /\ Len(runs["A"].sent) = 3
    /\ Len(runs["B"].sent) = 3
    /\ Len(runs["A"].sent[3]) = 5
    /\ Len(runs["B"].sent[3]) = 5
    /\ runs["B"].read.done
    /\ runs["B"].read.after = [op |-> "execute_tool", by |-> "A"]

-----------------------------------------------------------------------------
(* Vocabulary of the registration log *)

\* the i-th registration is the first one under its name
IsFirstUnderName(log, i) ==
    \A j \in 1..(i - 1) : DefinitionName(log[j]) # DefinitionName(log[i])

\* positions in the log of the first registration of every name, ascending
FirstRegistrations(log) ==
    SelectSeq([i \in 1..Len(log) |-> i], LAMBDA i : IsFirstUnderName(log, i))

\* the tool registered last under the name
LastUnder(log, name) ==
    log[CHOOSE i \in 1..Len(log) :
            /\ DefinitionName(log[i]) = name
            /\ \A j \in (i + 1)..Len(log) : DefinitionName(log[j]) # name]

(***************************************************************************)
(* C21 as stated: get_tool_definitions returns exactly one definition per  *)
(* registered tool, in registration order, after any sequence of           *)
(* successful register_tool calls.                                         *)
(***************************************************************************)
C21_OnePerRegisteredTool ==
    last_call.op = "get_tool_definitions" =>
        last_call.result =
            [i \in 1..Len(registered) |-> GetToolDefinition(registered[i])]

(***************************************************************************)
(* C21 amended: get_tool_definitions returns one definition per registered *)
(* name, that of the tool registered last under the name, in the order in  *)
(* which the names were first registered.                                  *)
(***************************************************************************)
C21_OnePerNameInFirstRegistrationOrder ==
    last_call.op = "get_tool_definitions" =>
        LET firsts == FirstRegistrations(registered) IN
        last_call.result =
            [k \in 1..Len(firsts) |->
                GetToolDefinition(
                    LastUnder(registered, DefinitionName(registered[firsts[k]])))]

\* the definitions are read after the outline tool, then two search tools one
\* after the other, were registered
C21_Witness ==
    /\ last_call.op = "get_tool_definitions"
    /\ registered = <<"outline_tool", "search_tool", "search_tool_2">>
    /\ Len(last_call.result) = 2
    /\ last_call.result[1].name = "get_course_outline"

-----------------------------------------------------------------------------
(* The built-in tools on their own: CourseSearchTool.execute and            *)
(* CourseOutlineTool.execute called in any order on one tool of each kind.  *)
(* The vector store is the environment: it answers any search with any      *)
(* result, resolves a course name or not, and holds any courses metadata.   *)

\* most passages one search result carries
MaxPassages == 2

\* most lessons the metadata of one course lists
MaxLessons == 2

\* Optional[int]: None, or a number
NoInt == [is_none |-> TRUE, val |-> 0]

SomeInt(n) == [is_none |-> FALSE, val |-> n]

\* Python truthiness of an Optional[int] and of an Optional[str]
TruthyInt(x) == ~x.is_none /\ x.val # 0

TruthyStr(x) == x # None /\ x # ""

\* dict.get(key, default)
Get(d, key, default) == IF key \in DOMAIN d THEN d[key] ELSE default

\* sep.join(parts)
RECURSIVE Join(_, _)
Join(sep, parts) ==
    IF parts = <<>> THEN ""
    ELSE IF Len(parts) = 1 THEN parts[1]
    ELSE parts[1] \o sep \o Join(sep, Tail(parts))

\* zip(a, b): pairs up to the shorter list
Zip(a, b) ==
    [i \in 1..(IF Len(a) <= Len(b) THEN Len(a) ELSE Len(b)) |-> <<a[i], b[i]>>]

(* values of the environment *)

\* arguments of CourseSearchTool.execute
CourseNames == {None, "Python"}

LessonFilters == {NoInt, SomeInt(0), SomeInt(1)}

\* metadata of a passage: of lesson 0 with its link, of lesson 1 without a
\* link, and with a link but no lesson number
PassageMetadata ==
    { [course_title |-> "Course 1", lesson_number |-> SomeInt(0),
       lesson_link |-> "https://example.com/lesson0"],
      [course_title |-> "Course 1", lesson_number |-> SomeInt(1),
       lesson_link |-> None],
      [course_title |-> "Course 2", lesson_number |-> NoInt,
       lesson_link |-> "https://example.com/lesson2"] }

\* the i-th document of a result
Document(i) == "Content " \o ToString(i)

SearchError == "Search error: Database connection failed"

\* SearchResults(documents, metadata, distances) of n passages
ResultsOf(n) ==
    { [documents |-> [i \in 1..n |-> Document(i)], metadata |-> m,
       error |-> None] : m \in [1..n -> PassageMetadata] }

\* what store.search may return: SearchResults.empty(error), no passage, or
\* 1..MaxPassages passages
SearchResultsSet ==
    {[documents |-> <<>>, metadata |-> <<>>, error |-> SearchError]}
        \cup UNION {ResultsOf(n) : n \in 0..MaxPassages}

\* SearchResults.is_empty
IsEmpty(results) == Len(results.documents) = 0

(* CourseSearchTool *)

\* `filter_info` of the empty-result message
FilterInfo(course_name, lesson_number) ==
    (IF TruthyStr(course_name)
     THEN " in course '" \o course_name \o "'" ELSE "")
    \o (IF TruthyInt(lesson_number)
        THEN " in lesson " \o ToString(lesson_number.val) ELSE "")

\* mutant of Header: `if lesson_num:` for `if lesson_num is not None:`
HeaderTruthy(meta) ==
    LET course_title == Get(meta, "course_title", "unknown")
        lesson_num == Get(meta, "lesson_number", NoInt)
    IN  "[" \o course_title
            \o (IF TruthyInt(lesson_num)
                THEN " - Lesson " \o ToString(lesson_num.val) ELSE "")
            \o "]"

\* `header` of one passage
Header(meta) ==
    LET course_title == Get(meta, "course_title", "unknown")
        lesson_num == Get(meta, "lesson_number", NoInt)
    IN  "[" \o course_title
            \o (IF ~lesson_num.is_none
                THEN " - Lesson " \o ToString(lesson_num.val) ELSE "")
            \o "]"

\* `source_data` of one passage
SourceData(meta) ==
    LET course_title == Get(meta, "course_title", "unknown")
        lesson_num == Get(meta, "lesson_number", NoInt)
        lesson_link == Get(meta, "lesson_link", None)
    IN  IF ~lesson_num.is_none
        THEN [text |-> course_title \o " - Lesson " \o ToString(lesson_num.val),
              link |-> IF TruthyStr(lesson_link) THEN lesson_link ELSE None]
        ELSE [text |-> course_title, link |-> None]

\* mutant of AssignSources: `self.last_sources.extend(sources)`
ExtendSources(old, sources) == old \o sources

\* `self.last_sources = sources`, `self.last_sources = [source_data]`
AssignSources(old, sources) == sources

\* CourseSearchTool._format_results: the text returned and the list assigned
\* to self.last_sources
FormatResults(results) ==
    LET pairs == Zip(results.documents, results.metadata)
        formatted == [i \in 1..Len(pairs) |->
                         Header(pairs[i][2]) \o "\n" \o pairs[i][1]]
        sources == [i \in 1..Len(pairs) |-> SourceData(pairs[i][2])]
    IN  [kind |-> "return", result |-> Join("\n\n", formatted),
         stored |-> SomeList(sources)]

\* mutant of SearchExecute: the store's error is wrapped in a message
SearchExecuteWrapping(results, course_name, lesson_number) ==
    IF TruthyStr(results.error)
    THEN [kind |-> "return", result |-> "Search failed: " \o results.error,
          stored |-> NoneList]
    ELSE IF IsEmpty(results)
    THEN [kind |-> "return",
          result |-> "No relevant content found"
                        \o FilterInfo(course_name, lesson_number) \o ".",
          stored |-> NoneList]
    ELSE FormatResults(results)

\* CourseSearchTool.execute on the result store.search returned: the text it
\* returns and the list it assigns to self.last_sources, None when it assigns
\* none
SearchExecute(results, course_name, lesson_number) ==
    IF TruthyStr(results.error)
    THEN [kind |-> "return", result |-> results.error, stored |-> NoneList]
    ELSE IF IsEmpty(results)
    THEN [kind |-> "return",
          result |-> "No relevant content found"
                        \o FilterInfo(course_name, lesson_number) \o ".",
          stored |-> NoneList]
    ELSE FormatResults(results)

(* CourseOutlineTool *)

\* arguments of CourseOutlineTool.execute
OutlineArguments == {"MCP"}

MCP == "MCP: Build Rich-Context AI Apps"

\* what store._resolve_course_name may return: None, or the title of a course
ResolvedTitles == {None, MCP}

\* lesson numbers of the courses below; 10 sorts after 2 as a number only
LessonNumbers == {1, 2, 10}

\* one entry of a course's `lessons`
Lesson(n) ==
    [lesson_number |-> n, lesson_title |-> "Title " \o ToString(n),
     lesson_link |-> "https://example.com/lesson" \o ToString(n)]

\* the `lessons` of a course, in any order: up to MaxLessons lessons of
\* different numbers
LessonLists ==
    UNION { { [i \in 1..n |-> Lesson(f[i])] :
                f \in { g \in [1..n -> LessonNumbers] :
                          \A i, j \in 1..n : i # j => g[i] # g[j] } } :
            n \in 0..MaxLessons }

\* the metadata of the course MCP: without a course link, or without an
\* instructor
CourseMetadata ==
    { [title |-> MCP, instructor |-> "Ada", lessons |-> l] :
        l \in LessonLists }
    \cup
    { [title |-> MCP, course_link |-> "https://example.com/mcp",
       instructor |-> None, lessons |-> l] : l \in LessonLists }

OtherCourse ==
    [title |-> "Python Basics", course_link |-> "https://example.com/python",
     instructor |-> "Bob", lessons |-> <<Lesson(1)>>]

\* what store.get_all_courses_metadata may return
AllCourses ==
    {<<>>, <<OtherCourse>>} \cup {<<OtherCourse, c>> : c \in CourseMetadata}

\* mutant of LessonKey: every lesson has the same key
LessonKeyConstant(lesson) == 0

\* `key=lambda x: x.get('lesson_number', 0)`
LessonKey(lesson) == Get(lesson, "lesson_number", 0)

\* `sorted(lessons, key=...)`: a stable sort
RECURSIVE SortedLessons(_)
SortedLessons(lessons) ==
    IF lessons = <<>> THEN <<>>
    ELSE LET n == Len(lessons)
             front == SortedLessons(SubSeq(lessons, 1, n - 1))
             x == lessons[n]
             k == Cardinality({i \in 1..(n - 1) :
                                  LessonKey(front[i]) <= LessonKey(x)})
         IN  SubSeq(front, 1, k) \o <<x>> \o SubSeq(front, k + 1, n - 1)

\* mutant of OutlineSource: the link of the first lesson stands for the course
OutlineSourceOfLesson(course_meta) ==
    LET title == Get(course_meta, "title", "Unknown Course")
        lessons == Get(course_meta, "lessons", <<>>)
    IN  [text |-> title,
         link |-> IF lessons = <<>> THEN None
                  ELSE Get(lessons[1], "lesson_link", None)]

\* `source_data = {"text": title, "link": course_link}`
OutlineSource(course_meta) ==
    [text |-> Get(course_meta, "title", "Unknown Course"),
     link |-> Get(course_meta, "course_link", None)]

\* `outline_parts` of CourseOutlineTool._format_course_outline
OutlineParts(course_meta) ==
    LET title == Get(course_meta, "title", "Unknown Course")
        course_link == Get(course_meta, "course_link", None)
        instructor == Get(course_meta, "instructor", None)
        lessons == Get(course_meta, "lessons", <<>>)
        sorted == SortedLessons(lessons)
    IN  <<"**" \o title \o "**">>
        \o (IF TruthyStr(course_link)
            THEN <<"Course Link: " \o course_link>> ELSE <<>>)
        \o (IF TruthyStr(instructor)
            THEN <<"Instructor: " \o instructor>> ELSE <<>>)
        \o (IF lessons # <<>>
            THEN <<"\n**Lessons:**">>
                 \o [i \in 1..Len(sorted) |->
                        "Lesson " \o ToString(Get(sorted[i], "lesson_number", None))
                            \o ": " \o Get(sorted[i], "lesson_title", "Untitled")]
            ELSE <<"\nNo lessons found for this course.">>)

\* CourseOutlineTool._format_course_outline
FormatCourseOutline(course_meta, calls) ==
    [kind |-> "return", result |-> Join("\n", OutlineParts(course_meta)),
     stored |-> SomeList(<<OutlineSource(course_meta)>>),
     store_calls |-> calls, outline_parts |-> OutlineParts(course_meta)]

\* the loop over all_courses: position of the first course whose title is the
\* resolved one, 0 when `target_course` stays None
TargetCourse(all_courses, resolved_title) ==
    LET found == {i \in 1..Len(all_courses) :
                     Get(all_courses[i], "title", None) = resolved_title}
    IN  IF found = {} THEN 0
        ELSE CHOOSE i \in found : \A j \in found : i <= j

\* mutant of OutlineExecute: the courses metadata is fetched before the
\* resolved title is looked at
OutlineExecuteEager(course_title, resolved_title, all_courses) ==
    LET calls == <<"_resolve_course_name", "get_all_courses_metadata">>
        target == TargetCourse(all_courses, resolved_title)
    IN  IF ~TruthyStr(resolved_title)
        THEN [kind |-> "return",
              result |-> "No course found matching '" \o course_title \o "'",
              stored |-> NoneList, store_calls |-> calls,
              outline_parts |-> <<>>]
        ELSE IF target = 0
        THEN [kind |-> "return",
              result |-> "Course metadata not found for '"
                            \o resolved_title \o "'",
              stored |-> NoneList, store_calls |-> calls,
              outline_parts |-> <<>>]
        ELSE FormatCourseOutline(all_courses[target], calls)

\* CourseOutlineTool.execute, given what the store answers: the text it
\* returns, the list it assigns to self.last_sources (None when it assigns
\* none), the store methods it called and its outline_parts
OutlineExecute(course_title, resolved_title, all_courses) ==
    IF ~TruthyStr(resolved_title)
    THEN [kind |-> "return",
          result |-> "No course found matching '" \o course_title \o "'",
          stored |-> NoneList, store_calls |-> <<"_resolve_course_name">>,
          outline_parts |-> <<>>]
    ELSE LET calls == <<"_resolve_course_name", "get_all_courses_metadata">>
             target == TargetCourse(all_courses, resolved_title)
         IN  IF target = 0
             THEN [kind |-> "return",
                   result |-> "Course metadata not found for '"
                                 \o resolved_title \o "'",
                   stored |-> NoneList, store_calls |-> calls,
                   outline_parts |-> <<>>]
             ELSE FormatCourseOutline(all_courses[target], calls)

(* the two tools, executed in any order *)

\* the executions of the two tools on every input, computed once
SearchExecuteOf ==
    [results \in SearchResultsSet, course_name \in CourseNames,
     lesson_number \in LessonFilters |->
        SearchExecute(results, course_name, lesson_number)]

OutlineExecuteOf ==
    [course_title \in OutlineArguments, resolved_title \in ResolvedTitles,
     all_courses \in AllCourses |->
        OutlineExecute(course_title, resolved_title, all_courses)]

\* what an execution of a tool never touches
outside_tools == <<tool_manager, tool_objs, runs, registered, last_stored>>

\* CourseSearchTool(store) and CourseOutlineTool(store): new tools, no
\* registry, no run of generate_response
ToolsInit ==
    /\ last_sources = [t \in ToolObjects |-> <<>>]
    /\ last_call = NoCall
    /\ tool_manager = NoManager
    /\ tool_objs = <<>>
    /\ runs = NoRuns
    /\ registered = <<>>
    /\ conversation_history = None
    /\ system_content = None
    /\ last_stored = None
    /\ tools = NoneList
    /\ pc = "start"
    /\ round_num = 0
    /\ messages = <<>>
    /\ response = NoResponse
    /\ block_idx = 0
    /\ tool_results = <<>>
    /\ api_calls = <<>>
    /\ api_responses = <<>>
    /\ dispatched = <<>>
    /\ outcome = [kind |-> "running"]
    /\ messages_obj = 0
    /\ sent = <<>>

\* search_tool.execute(query, course_name, lesson_number)
SearchToolExecute ==
    \E course_name \in CourseNames, lesson_number \in LessonFilters,
       results \in SearchResultsSet :
        LET out == SearchExecuteOf[results, course_name, lesson_number] IN
        /\ last_sources' =
                IF out.stored.is_none THEN last_sources
                ELSE [last_sources EXCEPT
                        !["search_tool"] = AssignSources(@, out.stored.val)]
        /\ last_call' = [op |-> "CourseSearchTool.execute",
                         course_name |-> course_name,
                         lesson_number |-> lesson_number,
                         results |-> results,
                         had_sources |-> last_sources["search_tool"] # <<>>,
                         kind |-> out.kind, result |-> out.result]
        /\ UNCHANGED outside_tools
        /\ UNCHANGED run_vars

\* outline_tool.execute(course_title)
OutlineToolExecute ==
    \E course_title \in OutlineArguments, resolved_title \in ResolvedTitles,
       all_courses \in AllCourses :
        LET out == OutlineExecuteOf[course_title, resolved_title,
                                    all_courses] IN
        /\ last_sources' =
                IF out.stored.is_none THEN last_sources
                ELSE [last_sources EXCEPT
                        !["outline_tool"] = AssignSources(@, out.stored.val)]
        /\ last_call' = [op |-> "CourseOutlineTool.execute",
                         course_title |-> course_title,
                         resolved_title |-> resolved_title,
                         had_sources |-> last_sources["outline_tool"] # <<>>,
                         all_courses |->
                            IF Len(out.store_calls) = 2 THEN all_courses
                                                        ELSE <<>>,
                         kind |-> out.kind, result |-> out.result,
                         store_calls |-> out.store_calls,
                         outline_parts |-> out.outline_parts]
        /\ UNCHANGED outside_tools
        /\ UNCHANGED run_vars

ToolsNext == SearchToolExecute \/ OutlineToolExecute

ToolsSpec == ToolsInit /\ [][ToolsNext]_vars

(* Vocabulary of the tools' executions *)

SearchRan == last_call.op = "CourseSearchTool.execute"

OutlineRan == last_call.op = "CourseOutlineTool.execute"

\* the store answered the search with an error, with no passage, with passages
SearchFailed == SearchRan /\ last_call.results.error # None

SearchFoundNothing ==
    SearchRan /\ last_call.results.error = None
              /\ last_call.results.documents = <<>>

SearchFound ==
    SearchRan /\ last_call.results.error = None
              /\ last_call.results.documents # <<>>

\* the store did not resolve the course title; it resolved it and holds no
\* metadata under the resolved title; it holds some
Unresolved == OutlineRan /\ last_call.resolved_title = None

HasMetadata ==
    \E i \in 1..Len(last_call.all_courses) :
        last_call.all_courses[i].title = last_call.resolved_title

NoMetadata == OutlineRan /\ ~Unresolved /\ ~HasMetadata

Outlined == OutlineRan /\ ~Unresolved /\ HasMetadata

\* the course the outline is of
OutlinedCourse ==
    last_call.all_courses[
        CHOOSE i \in 1..Len(last_call.all_courses) :
            last_call.all_courses[i].title = last_call.resolved_title]

(***************************************************************************)
(* C22 as stated: the sources a tool exposes are those of its most recent  *)
(* execution: after a CourseSearchTool.execute whose search result is      *)
(* empty or an error the tool's last_sources is empty, and after an        *)
(* outline execution that fails to resolve the course the outline tool     *)
(* exposes no source of an earlier execution.                              *)
(***************************************************************************)
C22_SourcesOfLatestExecution ==
    /\ SearchFailed \/ SearchFoundNothing => last_sources["search_tool"] = <<>>
    /\ Unresolved => last_sources["outline_tool"] = <<>>

\* the passage has a lesson number, a lesson link
HasLessonNumber(meta) ==
    "lesson_number" \in DOMAIN meta /\ ~meta.lesson_number.is_none

HasLessonLink(meta) ==
    "lesson_link" \in DOMAIN meta /\ meta.lesson_link # None

\* " - Lesson <n>" of a passage that has a lesson number
LessonSuffix(meta) ==
    IF HasLessonNumber(meta)
    THEN " - Lesson " \o ToString(meta.lesson_number.val) ELSE ""

(***************************************************************************)
(* C23: every CourseSearchTool.execute that succeeds with a non-empty      *)
(* result replaces last_sources with one entry per returned passage, in    *)
(* passage order: text is the course title, followed by " - Lesson <n>"    *)
(* when the passage has a lesson number; link is the lesson link when the  *)
(* passage has both a lesson number and a lesson link, absent otherwise.   *)
(***************************************************************************)
C23_SourcesReplaced ==
    SearchFound =>
        LET metadata == last_call.results.metadata IN
        last_sources["search_tool"] =
            [i \in 1..Len(last_call.results.documents) |->
                [text |-> metadata[i].course_title \o LessonSuffix(metadata[i]),
                 link |-> IF HasLessonNumber(metadata[i])
                             /\ HasLessonLink(metadata[i])
                          THEN metadata[i].lesson_link ELSE None]]

\* a search that found two passages, the first of a lesson with a link, the
\* second with a link but no lesson number, on a tool that held sources
C23_Witness ==
    /\ SearchFound
    /\ last_call.had_sources
    /\ Len(last_sources["search_tool"]) = 2
    /\ last_sources["search_tool"][1].link = "https://example.com/lesson0"
    /\ HasLessonLink(last_call.results.metadata[2])
    /\ last_sources["search_tool"][2] = [text |-> "Course 2", link |-> None]

(***************************************************************************)
(* C24 as stated: for an empty, error-free search result the text returned *)
(* is "No relevant content found", then " in course '<X>'" exactly when a  *)
(* course filter X was supplied, then " in lesson <n>" exactly when a      *)
(* lesson filter n was supplied, for every n >= 0, then ".".               *)
(***************************************************************************)
C24_EmptyResultNamesFilters ==
    SearchFoundNothing =>
        last_call.result =
            "No relevant content found"
            \o (IF last_call.course_name # None
                THEN " in course '" \o last_call.course_name \o "'" ELSE "")
            \o (IF ~last_call.lesson_number.is_none
                THEN " in lesson " \o ToString(last_call.lesson_number.val)
                ELSE "")
            \o "."

(***************************************************************************)
(* C25: when the search result carries an error, CourseSearchTool.execute  *)
(* returns that error text verbatim, without raising, whatever filters     *)
(* were supplied; the error comes before the empty-result rendering.       *)
(***************************************************************************)
C25_ErrorReturnedVerbatim ==
    SearchFailed =>
        /\ last_call.kind = "return"
        /\ last_call.result = last_call.results.error

\* an erroneous and empty result of a search with both filters
C25_Witness ==
    /\ SearchFailed
    /\ last_call.results.documents = <<>>
    /\ last_call.course_name = "Python"
    /\ last_call.lesson_number = SomeInt(1)
    /\ last_call.result = SearchError

\* the lesson numbers of a lessons list, and the k-th smallest of them
NumbersOf(lessons) == {lessons[i].lesson_number : i \in 1..Len(lessons)}

KthSmallest(S, k) == CHOOSE n \in S : Cardinality({m \in S : m < n}) = k - 1

\* the line "Lesson <n>: <title>" of the lesson numbered n
LessonLine(lessons, n) ==
    LET lesson == lessons[CHOOSE i \in 1..Len(lessons) :
                              lessons[i].lesson_number = n]
    IN  "Lesson " \o ToString(n) \o ": " \o lesson.lesson_title

\* every line that is a lesson line, and every one that is a course-link line
LessonLines ==
    {"Lesson " \o ToString(n) \o ": " \o Lesson(n).lesson_title :
        n \in LessonNumbers}

CourseLinkLines ==
    {"Course Link: " \o l : l \in {"https://example.com/mcp", "None", ""}}

IsLessonLine(line) == line \in LessonLines

(***************************************************************************)
(* C26: CourseOutlineTool renders the lesson lines in ascending            *)
(* lesson-number order for every input order of the lessons, each as       *)
(* "Lesson <n>: <title>", and the output contains no course-link line when *)
(* the course has no course link.                                          *)
(***************************************************************************)
C26_LessonsAscending ==
    Outlined =>
        LET lessons == OutlinedCourse.lessons
            lines == last_call.outline_parts
        IN  /\ last_call.result = Join("\n", lines)
            /\ SelectSeq(lines, IsLessonLine) =
                   [k \in 1..Len(lessons) |->
                       LessonLine(lessons, KthSmallest(NumbersOf(lessons), k))]
            /\ "course_link" \notin DOMAIN OutlinedCourse =>
                   \A i \in 1..Len(lines) : lines[i] \notin CourseLinkLines

\* the outline of a course without a course link whose lessons come as 10, 2
C26_Witness ==
    /\ Outlined
    /\ "course_link" \notin DOMAIN OutlinedCourse
    /\ OutlinedCourse.lessons = <<Lesson(10), Lesson(2)>>
    /\ last_call.result =
          "**MCP: Build Rich-Context AI Apps**\nInstructor: Ada\n\n**Lessons:**\nLesson 2: Title 2\nLesson 10: Title 10"

(***************************************************************************)
(* C27: CourseOutlineTool.execute fails gracefully: when the course title  *)
(* cannot be resolved it returns a "no course found" text, does not raise  *)
(* and does not query the courses metadata; when the resolved title has no *)
(* metadata entry it returns a text as well.                               *)
(***************************************************************************)
C27_OutlineFailsGracefully ==
    /\ Unresolved =>
          /\ last_call.kind = "return"
          /\ last_call.result =
                "No course found matching '" \o last_call.course_title \o "'"
          /\ \A i \in 1..Len(last_call.store_calls) :
                last_call.store_calls[i] # "get_all_courses_metadata"
    /\ NoMetadata =>
          /\ last_call.kind = "return"
          /\ last_call.result =
                "Course metadata not found for '"
                    \o last_call.resolved_title \o "'"

\* an outline asked of a course the store does not resolve
C27_Witness ==
    /\ Unresolved
    /\ last_call.result = "No course found matching 'MCP'"
    /\ last_call.store_calls = <<"_resolve_course_name">>

(***************************************************************************)
(* C28: after every successful CourseOutlineTool.execute the tool exposes  *)
(* exactly one source: its text is the course title and its link the       *)
(* course-level link (absent when the course has none), independent of any *)
(* lesson link and of the sources of earlier executions.                   *)
(***************************************************************************)
C28_OutlineOneSource ==
    Outlined =>
        last_sources["outline_tool"] =
            << [text |-> OutlinedCourse.title,
                link |-> IF "course_link" \in DOMAIN OutlinedCourse
                         THEN OutlinedCourse.course_link ELSE None] >>

\* the outline of a course without a course link whose lessons have links, on
\* a tool that held a source
C28_Witness ==
    /\ Outlined
    /\ last_call.had_sources
    /\ "course_link" \notin DOMAIN OutlinedCourse
    /\ OutlinedCourse.lessons # <<>>
    /\ OutlinedCourse.lessons[1].lesson_link # None
    /\ last_sources["outline_tool"] = << [text |-> MCP, link |-> None] >>

\* "[<course title>]" or "[<course title> - Lesson <n>]", a line break, the
\* passage text
Rendering(doc, meta) ==
    "[" \o meta.course_title \o LessonSuffix(meta) \o "]" \o "\n" \o doc

\* the renderings of the passages i.. of the result, one blank line between
\* consecutive ones
RECURSIVE RenderingsFrom(_, _)
RenderingsFrom(results, i) ==
    Rendering(results.documents[i], results.metadata[i])
        \o (IF i = Len(results.documents) THEN ""
            ELSE "\n\n" \o RenderingsFrom(results, i + 1))

(***************************************************************************)
(* C29: for a non-empty search result CourseSearchTool.execute renders     *)
(* every returned passage, in the order returned, as the header            *)
(* "[<course title>]" or "[<course title> - Lesson <n>]" (the latter       *)
(* exactly when the passage has a lesson number) on one line followed by   *)
(* the passage text, consecutive passages separated by one blank line.     *)
(***************************************************************************)
C29_PassagesRendered ==
    SearchFound => last_call.result = RenderingsFrom(last_call.results, 1)

\* two passages, the first of lesson 0, the second without a lesson number
C29_Witness ==
    /\ SearchFound
    /\ last_call.result =
          "[Course 1 - Lesson 0]\nContent 1\n\n[Course 2]\nContent 2"

-----------------------------------------------------------------------------
(* C30 as stated: a tool result that reports a failed tool call (the tool   *)
(* raised, or the tool was not found) is surfaced to the model              *)
(* error-flagged: the result entry folded into the conversation carries an  *)
(* is-error marker that distinguishes it from the result of a successful    *)
(* call.                                                                    *)
C30_FailuresErrorFlagged ==
    \A i \in 1..Len(dispatched) :
        (dispatched[i].result.kind = "raise" \/ ~dispatched[i].executed) =>
            \A j \in 1..Len(messages) :
                IsResultsMessage(messages[j]) =>
                    \A b \in 1..Len(messages[j].content) :
                        LET r == messages[j].content[b] IN
                        r.tool_use_id = dispatched[i].id =>
                            "is_error" \in DOMAIN r /\ r.is_error

-----------------------------------------------------------------------------
\* what a step of the run may do to the log of dispatches: a dispatch is of
\* the next tool_use block of the latest response, and a model call is made
\* only when every block of the earlier responses was dispatched
DispatchInTurn ==
    LET k == Len(api_responses) IN
    /\ dispatched' # dispatched =>
          /\ api_calls' = api_calls
          /\ k >= 1
          /\ ~api_responses[k].raised
          /\ Len(dispatched') = Len(dispatched) + 1
          /\ SubSeq(dispatched', 1, Len(dispatched)) = dispatched
          /\ LET n == Len(dispatched) - Len(ToolUseBlocksBefore(k))
                 blocks == ToolUseBlocks(api_responses[k].content)
             IN  /\ 0 <= n
                 /\ n < Len(blocks)
                 /\ dispatched'[Len(dispatched')].id = blocks[n + 1].id
    /\ api_calls' # api_calls =>
          /\ Len(api_calls') = Len(api_calls) + 1
          /\ IdsOf(dispatched) = IdsOf(ToolUseBlocksBefore(k + 1))
    /\ Done => dispatched' = dispatched /\ api_calls' = api_calls

(***************************************************************************)
(* C31: within one generate_response run the calls are strictly sequential *)
(* and ordered: every tool dispatch of a round happens after the model     *)
(* call whose response requested it and before the next model call, the    *)
(* dispatches of one response happen one at a time in the order of its     *)
(* tool-call blocks, and no dispatch happens before the first model call   *)
(* or after the last one.                                                  *)
(***************************************************************************)
C31_CallsSequential == [][DispatchInTurn]_vars

\* a run of three model calls whose first two responses asked for two tools
\* each, all four dispatched in order
C31_Witness ==
    /\ Returned
    /\ Len(api_calls) = 3
    /\ Len(dispatched) = 4
    /\ IdsOf(dispatched) = IdsOf(ToolUseBlocksBefore(3))

-----------------------------------------------------------------------------
\* the system text the run was given a history for: the prompt alone, or the
\* prompt, the separator and the history as it was passed
SystemTextFor(history) ==
    IF history = None \/ history = ""
    THEN SYSTEM_PROMPT
    ELSE SYSTEM_PROMPT \o "\n\nPrevious conversation:\n" \o history

HasHistory == conversation_history # None /\ conversation_history # ""

(***************************************************************************)
(* C32: the system instructions are built once per run and every model     *)
(* call of the run receives the identical system text: the system prompt   *)
(* alone when no (or an empty) history was supplied, and the system prompt *)
(* followed by "\n\nPrevious conversation:\n" and the unparsed history     *)
(* text otherwise; the first message of every call is a single user        *)
(* message holding the query.                                              *)
(***************************************************************************)
C32_SameSystemTextEveryCall ==
    \A k \in 1..Len(api_calls) :
        /\ api_calls[k].system = SystemTextFor(conversation_history)
        /\ api_calls[k].system = api_calls[1].system
        /\ Len(api_calls[k].messages) >= 1
        /\ api_calls[k].messages[1] = [role |-> "user", content |-> QUERY]

\* three model calls of a run that was given a history
C32_Witness ==
    /\ Returned
    /\ HasHistory
    /\ Len(api_calls) = 3
    /\ api_calls[3].system # SYSTEM_PROMPT

\* two model calls of a run that was given the empty history
C32_WitnessEmptyHistory ==
    /\ conversation_history = ""
    /\ Len(api_calls) >= 2
    /\ api_calls[2].system = SYSTEM_PROMPT

-----------------------------------------------------------------------------
(***************************************************************************)
(* C33: the defensive fallback after the loop is unreachable: the run      *)
(* never returns "Error: Maximum rounds exceeded".                         *)
(***************************************************************************)
C33_FallbackUnreachable ==
    ~(outcome.kind = "return" /\ outcome.value = "Error: Maximum rounds exceeded")

\* a run whose two rounds both executed tools and that returned the text of
\* the forced final call
C33_Witness ==
    /\ Returned
    /\ Len(api_calls) = 3
    /\ Len(messages) = 5
    /\ ReturnsTextOf(3)

-----------------------------------------------------------------------------
\* the registry holds the search tool and the outline tool, each registered
\* once and never replaced
HoldsSearchAndOutline ==
    /\ registered = tool_objs
    /\ \/ tool_objs = <<"search_tool", "outline_tool">>
       \/ tool_objs = <<"outline_tool", "search_tool">>

(***************************************************************************)
(* C34: get_last_sources returns the sources from the last search          *)
(* operation: after any sequence of execute_tool calls on a registry       *)
(* holding the search tool and the outline tool, it returns the source     *)
(* list written by the most recent execution that produced sources.        *)
(***************************************************************************)
C34_SourcesOfLastExecution ==
    /\ last_call.op = "get_last_sources"
    /\ HoldsSearchAndOutline
    /\ last_stored # None
    => last_call.result = last_sources[last_stored]

\* the search tool, registered first, stored sources, then the outline tool
\* stored its own, and get_last_sources returned the search tool's
C34_ReturnsFirstToolsSources ==
    /\ last_call.op = "get_last_sources"
    /\ tool_objs = <<"search_tool", "outline_tool">>
    /\ registered = tool_objs
    /\ last_stored = "outline_tool"
    /\ last_sources["outline_tool"] = OutlineSources
    /\ last_call.result = ResultSources
    /\ last_call.result # last_sources[last_stored]

-----------------------------------------------------------------------------
\* the roles of a message list alternate user, assistant, user, ...
RolesAlternate(msgs) ==
    \A j \in 1..Len(msgs) :
        msgs[j].role = IF j % 2 = 1 THEN "user" ELSE "assistant"

\* every assistant message of the list is directly followed by a results
\* message
ResultsFollow(msgs) ==
    \A j \in 1..Len(msgs) :
        msgs[j].role = "assistant" =>
            /\ j < Len(msgs)
            /\ IsResultsMessage(msgs[j + 1])

(***************************************************************************)
(* C35: in every message list sent to the model, each assistant            *)
(* tool-requesting message is immediately followed by exactly one user     *)
(* results message, the roles alternate user, assistant, user, ..., and    *)
(* the list starts and ends with a user message; its length is 1 at the    *)
(* first call, 3 at the second and 5 at the forced final call, for every   *)
(* tool-requesting response, one that carries no tool-call block included. *)
(***************************************************************************)
C35_MessageListsAlternate ==
    \A k \in 1..Len(api_calls) :
        LET msgs == api_calls[k].messages IN
        /\ Len(msgs) = 2 * k - 1
        /\ msgs[1].role = "user"
        /\ msgs[Len(msgs)].role = "user"
        /\ RolesAlternate(msgs)
        /\ ResultsFollow(msgs)

\* the second call of a run whose first response asked for tool use without
\* a tool_use block: two messages were sent, the last one the assistant's
C35_SentListEndsWithAssistant ==
    /\ Len(api_calls) >= 2
    /\ api_responses[1].stop_reason = "tool_use"
    /\ ToolUseBlocks(api_responses[1].content) = <<>>
    /\ Len(api_calls[2].messages) = 2
    /\ api_calls[2].messages[2].role = "assistant"

-----------------------------------------------------------------------------
IsAssistant(m) == m.role = "assistant"

\* the tool-execution rounds of the run so far: each one appended the
\* assistant message of the response it handled
ExecutionRounds == Len(SelectSeq(messages, IsAssistant))

(***************************************************************************)
(* C36: whenever generate_response returns, the number of model calls      *)
(* equals the number of tool-execution rounds plus one, the rounds are at  *)
(* most 2, and the total number of tool dispatches equals the number of    *)
(* tool-call blocks in the responses of those rounds.                      *)
(***************************************************************************)
C36_CallsRoundsDispatches ==
    Returned =>
        /\ Len(api_calls) = ExecutionRounds + 1
        /\ ExecutionRounds <= 2
        /\ Len(dispatched) = Len(ToolUseBlocksBefore(ExecutionRounds + 1))

\* a run of two rounds, one tool call in the first and two in the second,
\* that returned after the forced final call
C36_Witness ==
    /\ Returned
    /\ ExecutionRounds = 2
    /\ Len(api_calls) = 3
    /\ Len(ToolUseBlocks(api_responses[1].content)) = 1
    /\ Len(ToolUseBlocks(api_responses[2].content)) = 2
    /\ Len(dispatched) = 3

\* a run of one round that returned the second response, whose own tool_use
\* block was not dispatched
C36_WitnessUndispatchedBlock ==
    /\ Returned
    /\ ExecutionRounds = 1
    /\ Len(api_calls) = 2
    /\ ToolUseBlocks(api_responses[2].content) # <<>>
    /\ Len(dispatched) = Len(ToolUseBlocks(api_responses[1].content))

-----------------------------------------------------------------------------
\* the returned value is the text of a block of the k-th response other than
\* its first
ReturnsLaterTextOf(k) ==
    \E i \in 2..Len(api_responses[k].content) :
        /\ api_responses[k].content[i].type = "text"
        /\ outcome.value = api_responses[k].content[i].text

(***************************************************************************)
(* C37: the value generate_response returns is always taken from the last  *)
(* model response received, never from an earlier one, and it is the text  *)
(* of that response's first content block.                                 *)
(***************************************************************************)
C37_ReturnsLastResponseText ==
    Returned =>
        LET n == Len(api_responses) IN
        /\ n >= 1
        /\ n = Len(api_calls)
        /\ ReturnsTextOf(n)
        /\ ~ReturnsLaterTextOf(n)
        /\ \A k \in 1..(n - 1) :
              ~ReturnsTextOf(k) /\ ~ReturnsLaterTextOf(k)

\* a run that returned the text of its third response, whose content holds
\* two text blocks, after two responses that began with a text block too
C37_Witness ==
    /\ Returned
    /\ Len(api_responses) = 3
    /\ ReturnsTextOf(3)
    /\ Len(api_responses[3].content) = 2
    /\ api_responses[3].content[2].type = "text"
    /\ api_responses[1].content # <<>>
    /\ api_responses[1].content[1].type = "text"
    /\ api_responses[2].content # <<>>
    /\ api_responses[2].content[1].type = "text"

-----------------------------------------------------------------------------
\* the last call was execute_tool with a name the registry did not hold
ExecutedUnregistered ==
    /\ last_call.op = "execute_tool"
    /\ ~IsRegistered(ToolManager(last_call.before.tools), last_call.name)

(***************************************************************************)
(* C38: execute_tool with an unregistered name changes nothing: no tool's  *)
(* execute is called, the set of registered tools is unchanged, and every  *)
(* tool's source list (hence the result of get_last_sources) is the same   *)
(* as before the call.                                                     *)
(***************************************************************************)
C38_UnregisteredNameChangesNothing ==
    ExecutedUnregistered =>
        /\ ~last_call.executed
        /\ tool_manager.tools = last_call.before.tools
        /\ tool_objs = last_call.before.objs
        /\ \A t \in ToolObjects : last_sources[t] = last_call.before.sources[t]
        /\ GetLastSources(tool_objs, last_sources)
             = GetLastSources(last_call.before.objs, last_call.before.sources)

\* execute_tool("get_course_outline") on a registry that holds only the
\* search tool, whose sources of an earlier search are still there
C38_Witness ==
    /\ ExecutedUnregistered
    /\ last_call.name = "get_course_outline"
    /\ tool_objs = <<"search_tool">>
    /\ last_sources["search_tool"] # <<>>
    /\ GetLastSources(tool_objs, last_sources) = last_sources["search_tool"]

=============================================================================
